---------------------------- MODULE Spec2Model ----------------------------
(***************************************************************************)
(* A model of rlox: the scanner (src/src/scanner.rs), the recursive        *)
(* descent parser (src/src/parser.rs) and the tree-walking evaluator       *)
(* (src/src/interpreter.rs).                                               *)
(*                                                                         *)
(* Indices are those of the code: the parser's `current` and the scanner's *)
(* `start`/`current` count from 0, so element i of a Rust Vec is element   *)
(* i + 1 of the TLA+ sequence that models it.                              *)
(***************************************************************************)
EXTENDS Integers, Sequences, FiniteSets, TLC

VARIABLES
    tokens,     \* Parser.tokens: the Vec<Token> the parser was built with
    current,    \* Parser.current
    presult,    \* what the last parser call returned (or that it panicked)
    pcall,      \* the last parser call, the cursor it started from, the result before it
    tree,       \* the Expr handed to Interpreter::evaluate
    eresult,    \* what evaluate returned for it, with the log of its evaluate() calls
    scanner,    \* the Scanner: its fields, the diagnostics it printed, whether it panicked
    sresult,    \* what the last scan_tokens call returned (or that it panicked)
    scans,      \* the number of scan_tokens calls made on the Scanner
    printed     \* what AstPrinter::print returned for the tree

pvars == <<tokens, current, presult, pcall>>

evars == <<tree, eresult>>

svars == <<scanner, sresult, scans>>

vars == <<tokens, current, presult, pcall, tree, eresult, scanner, sresult, scans, printed>>

---------------------------------------------------------------------------
(* Bounds of the model *)

\* Total cost of the tokens before Eof in a freely generated token sequence:
\* a token of CoreKinds costs 1, any other token 3.
MaxCost == 4

\* Number of binary operators in a generated operator chain.
MaxOps == 2

\* Number of nodes of a generated tree handed to the evaluator.
MaxNodes == 5

\* Number of chars of a generated source.
MaxSourceLen == 3

\* Number of calls of scan_tokens on one Scanner.
MaxScans == 2

\* Largest number among the literal operands handed to the evaluator.
MaxNumber == 2

---------------------------------------------------------------------------
(* token.rs *)

TokenType ==
    { "LeftParen", "RightParen", "LeftBrace", "RightBrace", "Comma", "Dot",
      "Minus", "Plus", "Semicolon", "Slash", "Star",
      "Bang", "BangEqual", "Equal", "EqualEqual",
      "Greater", "GreaterEqual", "Less", "LessEqual",
      "Identifier", "String", "Number",
      "And", "Class", "Else", "False", "Fun", "For", "If", "Nil", "Or",
      "Print", "Return", "Super", "This", "True", "Var", "While",
      "Eof" }

\* Option<T>
None == [some |-> FALSE]

Some(v) == [some |-> TRUE, v |-> v]

\* f64 payloads are modelled as reduced fractions num/den with den > 0.
Rat(p, q) == [num |-> p, den |-> q]

\* token::Literal and expr::LiteralValue and LoxValue have the same four shapes.
NumberV(r) == [kind |-> "Number", n |-> r]

StringV(s) == [kind |-> "String", s |-> s]

BoolV(b) == [kind |-> "Bool", b |-> b]

NilV == [kind |-> "Nil"]

Token(token_type, lexeme, literal, line) ==
    [token_type |-> token_type, lexeme |-> lexeme, literal |-> literal, line |-> line]

---------------------------------------------------------------------------
(* expr.rs *)

Literal(value) == [node |-> "Literal", value |-> value]

Unary(operator, right) == [node |-> "Unary", operator |-> operator, right |-> right]

Binary(left, operator, right) ==
    [node |-> "Binary", left |-> left, operator |-> operator, right |-> right]

Grouping(expression) == [node |-> "Grouping", expression |-> expression]

---------------------------------------------------------------------------
(* parser.rs: helpers.  Every operator takes the cursor it starts from and *)
(* returns the cursor it leaves.                                           *)

\* &self.tokens[self.current]
peek(cur) == tokens[cur + 1]

\* &self.tokens[self.current - 1]: out of range (a panic) when current is 0
previous_panics(cur) == cur = 0

previous(cur) == tokens[cur]

is_at_end(cur) == peek(cur).token_type = "Eof"

check(cur, token_type) == ~is_at_end(cur) /\ peek(cur).token_type = token_type

\* advance: the cursor it leaves, and whether its closing previous() panics
advance(cur) ==
    LET c == IF ~is_at_end(cur) THEN cur + 1 ELSE cur
    IN  [cur |-> c, panic |-> previous_panics(c)]

\* mutant: when no type matches, the cursor steps back
match_tokens_rewinding(cur, types) ==
    IF \E t \in types : check(cur, t)
    THEN [matched |-> TRUE, cur |-> advance(cur).cur]
    ELSE [matched |-> FALSE, cur |-> IF cur > 0 THEN cur - 1 ELSE cur]

\* match_tokens: true and one token consumed when the next token has one of `types`
match_tokens(cur, types) ==
    IF \E t \in types : check(cur, t)
    THEN [matched |-> TRUE, cur |-> advance(cur).cur]
    ELSE [matched |-> FALSE, cur |-> cur]

\* Result<Expr, ParseError> together with the cursor left behind
Ok(expr, cur) == [ok |-> TRUE, expr |-> expr, cur |-> cur]

ParseError(message, token) == [message |-> message, token |-> token]

Err(error, cur) == [ok |-> FALSE, error |-> error, cur |-> cur]

\* mutant: the token found in place of the expected one is consumed
consume_consuming(cur, token_type, message) ==
    IF check(cur, token_type)
    THEN [ok |-> TRUE, cur |-> advance(cur).cur]
    ELSE [ok |-> FALSE, error |-> ParseError(message, peek(cur)), cur |-> advance(cur).cur]

consume(cur, token_type, message) ==
    IF check(cur, token_type)
    THEN [ok |-> TRUE, cur |-> advance(cur).cur]
    ELSE [ok |-> FALSE, error |-> ParseError(message, peek(cur)), cur |-> cur]

---------------------------------------------------------------------------
(* parser.rs: the Result grammar rules *)

RECURSIVE expression_result(_)
RECURSIVE binary_result(_, _)
RECURSIVE binary_loop(_, _, _)
RECURSIVE unary_result(_)
RECURSIVE primary_result(_)

\* The four binary rules equality_result, comparison_result, term_result and
\* factor_result are the same code with other operators and another operand rule.
Levels == <<"equality", "comparison", "term", "factor">>

\* mutant: term_result and factor_result with each other's operators
LevelOperators_swapped(level) ==
    CASE level = "equality" -> {"BangEqual", "EqualEqual"}
      [] level = "comparison" -> {"Greater", "GreaterEqual", "Less", "LessEqual"}
      [] level = "term" -> {"Slash", "Star"}
      [] level = "factor" -> {"Minus", "Plus"}

\* the token types each rule hands to match_tokens
LevelOperators(level) ==
    CASE level = "equality" -> {"BangEqual", "EqualEqual"}
      [] level = "comparison" -> {"Greater", "GreaterEqual", "Less", "LessEqual"}
      [] level = "term" -> {"Minus", "Plus"}
      [] level = "factor" -> {"Slash", "Star"}

\* the rule each rule calls for its operands
operand_result(level, cur) ==
    CASE level = "equality" -> binary_result("comparison", cur)
      [] level = "comparison" -> binary_result("term", cur)
      [] level = "term" -> binary_result("factor", cur)
      [] level = "factor" -> unary_result(cur)

\* mutant: the right operand is parsed by the rule itself, so chains lean right
binary_loop_right(level, expr, cur) ==
    LET m == match_tokens(cur, LevelOperators(level))
    IN  IF ~m.matched THEN Ok(expr, cur)
        ELSE LET operator == previous(m.cur)
                 right == binary_result(level, m.cur)
             IN  IF ~right.ok THEN right
                 ELSE Ok(Binary(expr, operator, right.expr), right.cur)

\* the while loop of a binary rule, entered with the tree built so far
binary_loop(level, expr, cur) ==
    LET m == match_tokens(cur, LevelOperators(level))
    IN  IF ~m.matched THEN Ok(expr, cur)
        ELSE LET operator == previous(m.cur)
                 right == operand_result(level, m.cur)
             IN  IF ~right.ok THEN right
                 ELSE binary_loop(level, Binary(expr, operator, right.expr), right.cur)

binary_result(level, cur) ==
    LET expr == operand_result(level, cur)
    IN  IF ~expr.ok THEN expr ELSE binary_loop(level, expr.expr, expr.cur)

equality_result(cur) == binary_result("equality", cur)

expression_result(cur) == equality_result(cur)

\* mutant: the operand of a prefix operator is parsed by the term rule
unary_result_term_operand(cur) ==
    LET m == match_tokens(cur, {"Bang", "Minus"})
    IN  IF m.matched
        THEN LET operator == previous(m.cur)
                 right == binary_result("term", m.cur)
             IN  IF ~right.ok THEN right
                 ELSE Ok(Unary(operator, right.expr), right.cur)
        ELSE primary_result(cur)

unary_result(cur) ==
    LET m == match_tokens(cur, {"Bang", "Minus"})
    IN  IF m.matched
        THEN LET operator == previous(m.cur)
                 right == unary_result(m.cur)
             IN  IF ~right.ok THEN right
                 ELSE Ok(Unary(operator, right.expr), right.cur)
        ELSE primary_result(cur)

\* primary_result from its `(` test on: the cursor may already have passed a
\* Number or String token that carries no payload
primary_group(cur) ==
    LET m == match_tokens(cur, {"LeftParen"})
    IN  IF m.matched
        THEN LET expr == expression_result(m.cur)
             IN  IF ~expr.ok THEN expr
                 ELSE LET c == consume(expr.cur, "RightParen", "Expect ')' after expression.")
                      IN  IF ~c.ok THEN Err(c.error, c.cur)
                          ELSE Ok(Grouping(expr.expr), c.cur)
        ELSE Err(ParseError("Expect expression.", peek(cur)), cur)

primary_result(cur) ==
    IF match_tokens(cur, {"False"}).matched
    THEN Ok(Literal(BoolV(FALSE)), match_tokens(cur, {"False"}).cur)
    ELSE IF match_tokens(cur, {"True"}).matched
    THEN Ok(Literal(BoolV(TRUE)), match_tokens(cur, {"True"}).cur)
    ELSE IF match_tokens(cur, {"Nil"}).matched
    THEN Ok(Literal(NilV), match_tokens(cur, {"Nil"}).cur)
    ELSE LET m == match_tokens(cur, {"Number", "String"})
         IN  IF m.matched
             THEN LET token == previous(m.cur)
                  IN  IF token.literal.some
                      THEN IF token.literal.v.kind \in {"Number", "String"}
                           THEN Ok(Literal(token.literal.v), m.cur)
                           ELSE Err(ParseError("Unexpected literal type", token), m.cur)
                      ELSE primary_group(m.cur)
             ELSE primary_group(cur)

\* mutant: parse fails unless the expression ends at the Eof token
parse_to_eof(cur) ==
    LET r == expression_result(cur)
    IN  IF r.ok /\ ~is_at_end(r.cur)
        THEN Err(ParseError("Expect end of expression.", peek(r.cur)), r.cur)
        ELSE r

\* pub fn parse
parse(cur) == expression_result(cur)

---------------------------------------------------------------------------
(* parser.rs: the panicking grammar rules.  A rule returns a tree and the  *)
(* cursor it leaves, or panics.                                            *)

Returned(expr, cur) == [ok |-> TRUE, expr |-> expr, cur |-> cur]

\* panic!(message), at cursor cur
Panics(message, cur) == [ok |-> FALSE, message |-> message, cur |-> cur]

RECURSIVE expression(_)
RECURSIVE Parser_binary(_, _)
RECURSIVE binary_while(_, _, _)
RECURSIVE Parser_unary(_)
RECURSIVE primary(_)

\* the rule each of equality, comparison, term and factor calls for its operands
operand(level, cur) ==
    CASE level = "equality" -> Parser_binary("comparison", cur)
      [] level = "comparison" -> Parser_binary("term", cur)
      [] level = "term" -> Parser_binary("factor", cur)
      [] level = "factor" -> Parser_unary(cur)

\* the while loop of equality, comparison, term and factor
binary_while(level, expr, cur) ==
    LET m == match_tokens(cur, LevelOperators(level))
    IN  IF ~m.matched THEN Returned(expr, cur)
        ELSE LET operator == previous(m.cur)
                 right == operand(level, m.cur)
             IN  IF ~right.ok THEN right
                 ELSE binary_while(level, Binary(expr, operator, right.expr), right.cur)

\* equality, comparison, term and factor
Parser_binary(level, cur) ==
    LET expr == operand(level, cur)
    IN  IF ~expr.ok THEN expr ELSE binary_while(level, expr.expr, expr.cur)

equality(cur) == Parser_binary("equality", cur)

\* pub fn expression
expression(cur) == equality(cur)

Parser_unary(cur) ==
    LET m == match_tokens(cur, {"Bang", "Minus"})
    IN  IF m.matched
        THEN LET operator == previous(m.cur)
                 right == Parser_unary(m.cur)
             IN  IF ~right.ok THEN right
                 ELSE Returned(Unary(operator, right.expr), right.cur)
        ELSE primary(cur)

\* primary from its `(` test on; the Result of consume is dropped, so the
\* Grouping is returned whether or not a `)` was there
primary_paren(cur) ==
    LET m == match_tokens(cur, {"LeftParen"})
    IN  IF m.matched
        THEN LET expr == expression(m.cur)
             IN  IF ~expr.ok THEN expr
                 ELSE LET c == consume(expr.cur, "RightParen", "Expect ')' after expression.")
                      IN  Returned(Grouping(expr.expr), c.cur)
        ELSE Panics("Expect expression.", cur)

primary(cur) ==
    IF match_tokens(cur, {"False"}).matched
    THEN Returned(Literal(BoolV(FALSE)), match_tokens(cur, {"False"}).cur)
    ELSE IF match_tokens(cur, {"True"}).matched
    THEN Returned(Literal(BoolV(TRUE)), match_tokens(cur, {"True"}).cur)
    ELSE IF match_tokens(cur, {"Nil"}).matched
    THEN Returned(Literal(NilV), match_tokens(cur, {"Nil"}).cur)
    ELSE LET m == match_tokens(cur, {"Number", "String"})
         IN  IF m.matched
             THEN LET token == previous(m.cur)
                  IN  IF token.literal.some
                      THEN IF token.literal.v.kind \in {"Number", "String"}
                           THEN Returned(Literal(token.literal.v), m.cur)
                           ELSE Panics("Unexpected literal type", m.cur)
                      ELSE primary_paren(m.cur)
             ELSE primary_paren(cur)

---------------------------------------------------------------------------
(* parser.rs: synchronize *)

SyncKeywords == {"Class", "Fun", "Var", "For", "If", "While", "Print", "Return"}

RECURSIVE synchronize_loop(_)
RECURSIVE synchronize_loop_before(_)

\* mutant: stops before a `;` instead of after it
synchronize_loop_before(cur) ==
    IF is_at_end(cur) THEN cur
    ELSE IF peek(cur).token_type = "Semicolon" THEN cur
    ELSE IF peek(cur).token_type \in SyncKeywords THEN cur
    ELSE synchronize_loop_before(advance(cur).cur)

\* the while loop of synchronize: the cursor at which it returns
synchronize_loop(cur) ==
    IF is_at_end(cur) THEN cur
    ELSE IF previous(cur).token_type = "Semicolon" THEN cur
    ELSE IF peek(cur).token_type \in SyncKeywords THEN cur
    ELSE synchronize_loop(advance(cur).cur)

\* mutant: synchronize returns at once when the next token is a boundary
synchronize_checking_first(cur) ==
    IF is_at_end(cur) \/ peek(cur).token_type \in SyncKeywords
    THEN [panic |-> FALSE, cur |-> cur]
    ELSE [panic |-> advance(cur).panic, cur |-> synchronize_loop(advance(cur).cur)]

\* synchronize: panics in its first advance(), or returns leaving a cursor
synchronize(cur) ==
    LET a == advance(cur)
    IN  IF a.panic THEN [panic |-> TRUE, cur |-> a.cur]
        ELSE [panic |-> FALSE, cur |-> synchronize_loop(a.cur)]

---------------------------------------------------------------------------
(* f64 arithmetic, on reduced fractions.  Rounding, overflow to infinity   *)
(* and NaN are outside the model; -0.0 and 0.0 are the one zero, as they   *)
(* are for the == of f64.                                                  *)

RECURSIVE GCD(_, _)

GCD(a, b) == IF b = 0 THEN a ELSE GCD(b, a % b)

Abs(a) == IF a < 0 THEN -a ELSE a

\* p/q with q # 0, reduced, the sign in the numerator
RatNorm(p, q) ==
    LET g == GCD(Abs(p), Abs(q))
        sgn == IF q < 0 THEN -1 ELSE 1
    IN  Rat(sgn * (p \div g), Abs(q) \div g)

\* mutant: the number is returned as it is
RatNeg_same(a) == a

RatNeg(a) == Rat(-a.num, a.den)

RatAdd(a, b) == RatNorm(a.num * b.den + b.num * a.den, a.den * b.den)

RatSub(a, b) == RatNorm(a.num * b.den - b.num * a.den, a.den * b.den)

RatMul(a, b) == RatNorm(a.num * b.num, a.den * b.den)

\* l / r for r # 0
RatDiv(a, b) == RatNorm(a.num * b.den, a.den * b.num)

RatLess(a, b) == a.num * b.den < b.num * a.den

RatZero == Rat(0, 1)

---------------------------------------------------------------------------
(* lox_value.rs *)

\* mutant: the Number 0 and the empty String are falsy too
is_truthy_zero_falsy(v) ==
    IF (v.kind = "Bool" /\ v.b = FALSE) \/ v.kind = "Nil" THEN FALSE
    ELSE IF v.kind = "Number" THEN v.n.num # 0
    ELSE IF v.kind = "String" THEN v.s # ""
    ELSE TRUE

is_truthy(v) ==
    IF (v.kind = "Bool" /\ v.b = FALSE) \/ v.kind = "Nil" THEN FALSE ELSE TRUE

\* mutant: Nil counts as the number 0
as_number_nil_zero(v) ==
    IF v.kind = "Number" THEN Some(v.n)
    ELSE IF v.kind = "Nil" THEN Some(Rat(0, 1))
    ELSE None

as_number(v) == IF v.kind = "Number" THEN Some(v.n) ELSE None

\* mutant: a Number counts as the string of its sign-less integer part
as_string_of_number(v) ==
    IF v.kind = "String" THEN Some(v.s)
    ELSE IF v.kind = "Number" THEN Some(ToString(Abs(v.n.num) \div v.n.den))
    ELSE None

as_string(v) == IF v.kind = "String" THEN Some(v.s) ELSE None

\* impl From<LiteralValue> for LoxValue
from_literal(literal_value) ==
    CASE literal_value.kind = "Number" -> NumberV(literal_value.n)
      [] literal_value.kind = "String" -> StringV(literal_value.s)
      [] literal_value.kind = "Bool" -> BoolV(literal_value.b)
      [] literal_value.kind = "Nil" -> NilV

---------------------------------------------------------------------------
(* runtime_error.rs and interpreter.rs.  A result carries `calls`, the     *)
(* nodes evaluate() was called on, in the order of the calls: each node by *)
(* its shape and, for an operator node, its token.                         *)

RuntimeError(token, message) == [token |-> token, message |-> message]

Value(v, calls) == [ok |-> TRUE, value |-> v, calls |-> calls]

Failure(error, calls) == [ok |-> FALSE, error |-> error, calls |-> calls]

Label(e) ==
    CASE e.node = "Literal" -> e
      [] e.node \in {"Unary", "Binary"} -> [node |-> e.node, operator |-> e.operator]
      [] OTHER -> [node |-> e.node]

RECURSIVE evaluate(_)

visit_literal(literal) == Value(from_literal(literal.value), <<>>)

visit_grouping(grouping) == evaluate(grouping.expression)

visit_unary(unary) ==
    LET right == evaluate(unary.right)
    IN  IF ~right.ok THEN right
        ELSE CASE unary.operator.token_type = "Minus" ->
                    IF as_number(right.value).some
                    THEN Value(NumberV(RatNeg(as_number(right.value).v)), right.calls)
                    ELSE Failure(RuntimeError(unary.operator, "Operand must be a number."),
                                 right.calls)
               [] unary.operator.token_type = "Bang" ->
                    Value(BoolV(~is_truthy(right.value)), right.calls)
               [] OTHER ->
                    Failure(RuntimeError(unary.operator, "Invalid unary operator."),
                            right.calls)

\* mutant: two falsy values are equal
is_equal_falsy(left, right) == left = right \/ (~is_truthy(left) /\ ~is_truthy(right))

is_equal(left, right) == left = right

\* mutant: `/` tests its right operand for zero before the operand types
binary_op_zero_first(operator, left, right) ==
    LET l == as_number(left)
        r == as_number(right)
        must_be_numbers == [ok |-> FALSE,
                            error |-> RuntimeError(operator, "Operands must be numbers.")]
    IN  IF operator.token_type = "Slash"
        THEN IF r.some /\ r.v = RatZero
             THEN [ok |-> FALSE, error |-> RuntimeError(operator, "Division by zero.")]
             ELSE IF l.some /\ r.some
                  THEN [ok |-> TRUE, value |-> NumberV(RatDiv(l.v, r.v))]
                  ELSE must_be_numbers
        ELSE must_be_numbers

\* the match of visit_binary on the operator, given both operand values
binary_op(operator, left, right) ==
    LET l == as_number(left)
        r == as_number(right)
        numbers == l.some /\ r.some
        must_be_numbers == [ok |-> FALSE,
                            error |-> RuntimeError(operator, "Operands must be numbers.")]
        value(v) == [ok |-> TRUE, value |-> v]
        t == operator.token_type
    IN  CASE t = "Minus" ->
               IF numbers THEN value(NumberV(RatSub(l.v, r.v))) ELSE must_be_numbers
          [] t = "Star" ->
               IF numbers THEN value(NumberV(RatMul(l.v, r.v))) ELSE must_be_numbers
          [] t = "Slash" ->
               IF numbers
               THEN IF r.v = RatZero
                    THEN [ok |-> FALSE, error |-> RuntimeError(operator, "Division by zero.")]
                    ELSE value(NumberV(RatDiv(l.v, r.v)))
               ELSE must_be_numbers
          [] t = "Plus" ->
               IF numbers THEN value(NumberV(RatAdd(l.v, r.v)))
               ELSE IF as_string(left).some /\ as_string(right).some
                    THEN value(StringV(as_string(left).v \o as_string(right).v))
                    ELSE [ok |-> FALSE,
                          error |-> RuntimeError(operator,
                                        "Operands must be two numbers or two strings.")]
          [] t = "Greater" ->
               IF numbers THEN value(BoolV(RatLess(r.v, l.v))) ELSE must_be_numbers
          [] t = "GreaterEqual" ->
               IF numbers THEN value(BoolV(~RatLess(l.v, r.v))) ELSE must_be_numbers
          [] t = "Less" ->
               IF numbers THEN value(BoolV(RatLess(l.v, r.v))) ELSE must_be_numbers
          [] t = "LessEqual" ->
               IF numbers THEN value(BoolV(~RatLess(r.v, l.v))) ELSE must_be_numbers
          [] t = "EqualEqual" -> value(BoolV(is_equal(left, right)))
          [] t = "BangEqual" -> value(BoolV(~is_equal(left, right)))
          [] OTHER -> [ok |-> FALSE, error |-> RuntimeError(operator, "Invalid binary operator.")]

\* mutant: the right operand is evaluated before the left one
visit_binary_right_first(binary) ==
    LET right == evaluate(binary.right)
    IN  IF ~right.ok THEN right
        ELSE LET left == evaluate(binary.left)
                 calls == right.calls \o left.calls
             IN  IF ~left.ok THEN Failure(left.error, calls)
                 ELSE LET r == binary_op(binary.operator, left.value, right.value)
                      IN  IF r.ok THEN Value(r.value, calls) ELSE Failure(r.error, calls)

visit_binary(binary) ==
    LET left == evaluate(binary.left)
    IN  IF ~left.ok THEN left
        ELSE LET right == evaluate(binary.right)
                 calls == left.calls \o right.calls
             IN  IF ~right.ok THEN Failure(right.error, calls)
                 ELSE LET r == binary_op(binary.operator, left.value, right.value)
                      IN  IF r.ok THEN Value(r.value, calls) ELSE Failure(r.error, calls)

dummy_token == Token("Eof", "", None, 0)

\* mutant: a node of a shape that is not implemented evaluates to Nil
evaluate_placeholder(expr) ==
    LET r == CASE expr.node = "Literal" -> visit_literal(expr)
               [] expr.node = "Grouping" -> visit_grouping(expr)
               [] expr.node = "Unary" -> visit_unary(expr)
               [] expr.node = "Binary" -> visit_binary(expr)
               [] OTHER -> Value(NilV, <<>>)
    IN  [r EXCEPT !.calls = <<Label(expr)>> \o r.calls]

evaluate(expr) ==
    LET r == CASE expr.node = "Literal" -> visit_literal(expr)
               [] expr.node = "Grouping" -> visit_grouping(expr)
               [] expr.node = "Unary" -> visit_unary(expr)
               [] expr.node = "Binary" -> visit_binary(expr)
               [] OTHER -> Failure(RuntimeError(dummy_token,
                                       "This expression type is not yet implemented"), <<>>)
    IN  [r EXCEPT !.calls = <<Label(expr)>> \o r.calls]

---------------------------------------------------------------------------
(* scanner.rs.  The source is a sequence of chars, each a string of one    *)
(* character.  `start` and `current` count chars where the code reads a    *)
(* char (chars().nth) and bytes where it tests the end or cuts a lexeme    *)
(* (source.len(), &source[a..b]).  A scanner record carries, next to the   *)
(* fields of the struct, `stderr`, the diagnostics printed so far, and     *)
(* `panic`, set when a call panicked.                                      *)

\* '\0'
NUL == "NUL"

\* the chars of the model that UTF-8 encodes in more than one byte
TwoByteChars == {"é"}

\* char::len_utf8
len_utf8(c) == IF c \in TwoByteChars THEN 2 ELSE 1

RECURSIVE ByteOffset(_, _)

\* the number of bytes of the first k chars of the source
ByteOffset(source, k) ==
    IF k = 0 THEN 0 ELSE ByteOffset(source, k - 1) + len_utf8(source[k])

\* self.source.len()
source_len(source) == ByteOffset(source, Len(source))

\* self.source.chars().nth(i)
chars_nth(source, i) == IF i < Len(source) THEN Some(source[i + 1]) ELSE None

\* str::is_char_boundary
is_char_boundary(source, b) == \E k \in 0..Len(source) : ByteOffset(source, k) = b

\* the number of chars before the char boundary b
CharsBefore(source, b) == CHOOSE k \in 0..Len(source) : ByteOffset(source, k) = b

\* &self.source[a..b]: the chars of the byte range, None where the slice panics
slice(source, a, b) ==
    IF a <= b /\ is_char_boundary(source, a) /\ is_char_boundary(source, b)
    THEN Some(SubSeq(source, CharsBefore(source, a) + 1, CharsBefore(source, b)))
    ELSE None

RECURSIVE Text(_)

\* .to_string(): the chars as one string
Text(chars) == IF chars = <<>> THEN "" ELSE chars[1] \o Text(Tail(chars))

Digits == {"0", "1", "2", "3", "4", "5", "6", "7", "8", "9"}

LowerCase ==
    {"a", "b", "c", "d", "e", "f", "g", "h", "i", "j", "k", "l", "m",
     "n", "o", "p", "q", "r", "s", "t", "u", "v", "w", "x", "y", "z"}

UpperCase ==
    {"A", "B", "C", "D", "E", "F", "G", "H", "I", "J", "K", "L", "M",
     "N", "O", "P", "Q", "R", "S", "T", "U", "V", "W", "X", "Y", "Z"}

is_digit(c) == c \in Digits

is_alpha(c) == c \in LowerCase \cup UpperCase \cup {"_"}

is_alpha_numeric(c) == is_alpha(c) \/ is_digit(c)

DigitValue(c) == CHOOSE d \in 0..9 : ToString(d) = c

RECURSIVE DigitsValue(_)

\* the number a sequence of digits writes, 0 for the empty one
DigitsValue(ds) ==
    IF ds = <<>> THEN 0
    ELSE DigitsValue(SubSeq(ds, 1, Len(ds) - 1)) * 10 + DigitValue(ds[Len(ds)])

RECURSIVE Pow10(_)

Pow10(n) == IF n = 0 THEN 1 ELSE 10 * Pow10(n - 1)

\* str::parse::<f64>, for texts without exponent, inf and nan: an optional
\* sign, digits with at most one `.`, at least one digit; None for Err
parse_f64(chars) ==
    LET magnitude(int, frac) ==
            IF /\ \A i \in 1..Len(int) : is_digit(int[i])
               /\ \A i \in 1..Len(frac) : is_digit(frac[i])
               /\ Len(int) + Len(frac) > 0
            THEN Some(RatNorm(DigitsValue(int) * Pow10(Len(frac)) + DigitsValue(frac),
                              Pow10(Len(frac))))
            ELSE None
        split(body, dots) ==
            IF dots = {} THEN magnitude(body, <<>>)
            ELSE LET dot == CHOOSE i \in dots : \A j \in dots : i <= j
                 IN  magnitude(SubSeq(body, 1, dot - 1), SubSeq(body, dot + 1, Len(body)))
        unsigned(body) == split(body, {i \in 1..Len(body) : body[i] = "."})
        negated(m) == IF m.some THEN Some(RatNeg(m.v)) ELSE None
    IN  IF chars # <<>> /\ chars[1] = "-" THEN negated(unsigned(Tail(chars)))
        ELSE IF chars # <<>> /\ chars[1] = "+" THEN unsigned(Tail(chars))
        ELSE unsigned(chars)

\* the HashMap Scanner::new builds
keywords ==
    [and |-> "And", class |-> "Class", else |-> "Else", false |-> "False",
     for |-> "For", fun |-> "Fun", if |-> "If", nil |-> "Nil", or |-> "Or",
     print |-> "Print", return |-> "Return", super |-> "Super", this |-> "This",
     true |-> "True", var |-> "Var", while |-> "While"]

Scanner_new(source) ==
    [source |-> source, tokens |-> <<>>, start |-> 0, current |-> 0, line |-> 1,
     stderr |-> <<>>, panic |-> FALSE]

Panic(sc) == [sc EXCEPT !.panic = TRUE]

\* eprintln!
eprintln(sc, message) ==
    [sc EXCEPT !.stderr = Append(@, [message |-> message, line |-> sc.line])]

Scanner_is_at_end(sc) == sc.current >= source_len(sc.source)

\* advance: the scanner it leaves and the char it returns; unwrap() panics on
\* None
Scanner_advance(sc) ==
    LET c == chars_nth(sc.source, sc.current)
    IN  IF c.some THEN [sc |-> [sc EXCEPT !.current = @ + 1], c |-> c.v]
        ELSE [sc |-> Panic(sc), c |-> NUL]

\* peek: the char, or None where unwrap() panics
Scanner_peek(sc) ==
    IF Scanner_is_at_end(sc) THEN Some(NUL) ELSE chars_nth(sc.source, sc.current)

\* peek_next: the char, or None where unwrap() panics
peek_next(sc) ==
    IF sc.current + 1 >= source_len(sc.source) THEN Some(NUL)
    ELSE chars_nth(sc.source, sc.current + 1)

add_token_literal(sc, token_type, literal) ==
    LET text == slice(sc.source, sc.start, sc.current)
    IN  IF text.some
        THEN [sc EXCEPT !.tokens = Append(@, Token(token_type, Text(text.v), literal, sc.line))]
        ELSE Panic(sc)

add_token(sc, token_type) == add_token_literal(sc, token_type, None)

\* mutant: the expected char is recognised but not consumed
token_match_unconsumed(sc, expected) ==
    IF Scanner_is_at_end(sc) THEN [matched |-> FALSE, sc |-> sc]
    ELSE IF chars_nth(sc.source, sc.current) # Some(expected)
    THEN [matched |-> FALSE, sc |-> sc]
    ELSE [matched |-> TRUE, sc |-> sc]

token_match(sc, expected) ==
    IF Scanner_is_at_end(sc) THEN [matched |-> FALSE, sc |-> sc]
    ELSE IF chars_nth(sc.source, sc.current) # Some(expected)
    THEN [matched |-> FALSE, sc |-> sc]
    ELSE [matched |-> TRUE, sc |-> [sc EXCEPT !.current = @ + 1]]

RECURSIVE string_loop_uncounted(_)

\* mutant: a newline inside a string is not counted
string_loop_uncounted(sc) ==
    LET p == Scanner_peek(sc)
    IN  IF sc.panic THEN sc
        ELSE IF ~p.some THEN Panic(sc)
        ELSE IF p.v # "\"" /\ ~Scanner_is_at_end(sc)
        THEN string_loop_uncounted(Scanner_advance(sc).sc)
        ELSE sc

RECURSIVE string_loop(_)

\* while self.peek() != '"' && !self.is_at_end()
string_loop(sc) ==
    LET p == Scanner_peek(sc)
    IN  IF sc.panic THEN sc
        ELSE IF ~p.some THEN Panic(sc)
        ELSE IF p.v # "\"" /\ ~Scanner_is_at_end(sc)
        THEN string_loop(Scanner_advance(IF p.v = "\n"
                                         THEN [sc EXCEPT !.line = @ + 1]
                                         ELSE sc).sc)
        ELSE sc

\* string: the loop, the test for the end of the source, the closing `"`,
\* the token of the chars between the quotes
string(sc) ==
    LET token(closed) ==
            LET value == slice(closed.source, closed.start + 1, closed.current - 1)
            IN  IF closed.panic THEN closed
                ELSE IF ~value.some THEN Panic(closed)
                ELSE add_token_literal(closed, "String", Some(StringV(Text(value.v))))
        close(s) ==
            IF s.panic THEN s
            ELSE IF Scanner_is_at_end(s) THEN eprintln(s, "Unterminated string.")
            ELSE token(Scanner_advance(s).sc)
    IN  close(string_loop(sc))

RECURSIVE digits_loop(_)

\* while self.is_digit(self.peek())
digits_loop(sc) ==
    LET p == Scanner_peek(sc)
    IN  IF sc.panic THEN sc
        ELSE IF ~p.some THEN Panic(sc)
        ELSE IF is_digit(p.v) THEN digits_loop(Scanner_advance(sc).sc)
        ELSE sc

\* mutant: a `.` after the digits is taken whatever follows it
number_trailing_dot(sc) ==
    LET s == digits_loop(sc)
        p == Scanner_peek(s)
        fraction ==
            IF s.panic THEN s
            ELSE IF ~p.some THEN Panic(s)
            ELSE IF p.v # "." THEN s
            ELSE digits_loop(Scanner_advance(s).sc)
        text == slice(fraction.source, fraction.start, fraction.current)
        value == parse_f64(text.v)
    IN  IF fraction.panic THEN fraction
        ELSE IF ~text.some THEN Panic(fraction)
        ELSE IF ~value.some THEN Panic(fraction)
        ELSE add_token_literal(fraction, "Number", Some(NumberV(value.v)))

\* number: the digits, the fraction where a `.` and a digit follow, the
\* token of the parsed text
number(sc) ==
    LET token(fraction) ==
            LET text == slice(fraction.source, fraction.start, fraction.current)
                value == parse_f64(text.v)
            IN  IF fraction.panic THEN fraction
                ELSE IF ~text.some THEN Panic(fraction)
                ELSE IF ~value.some THEN Panic(fraction)
                ELSE add_token_literal(fraction, "Number", Some(NumberV(value.v)))
        fraction(s) ==
            LET p == Scanner_peek(s)
                n == peek_next(s)
            IN  IF s.panic THEN s
                ELSE IF ~p.some THEN Panic(s)
                ELSE IF p.v # "." THEN s
                ELSE IF ~n.some THEN Panic(s)
                ELSE IF is_digit(n.v) THEN digits_loop(Scanner_advance(s).sc)
                ELSE s
    IN  token(fraction(digits_loop(sc)))

RECURSIVE identifier_loop(_)

\* while self.is_alpha_numeric(self.peek())
identifier_loop(sc) ==
    LET p == Scanner_peek(sc)
    IN  IF sc.panic THEN sc
        ELSE IF ~p.some THEN Panic(sc)
        ELSE IF is_alpha_numeric(p.v) THEN identifier_loop(Scanner_advance(sc).sc)
        ELSE sc

\* mutant: a word that begins with a keyword gets the type of that keyword
identifier_keyword_prefix(sc) ==
    LET s == identifier_loop(sc)
        text == slice(s.source, s.start, s.current)
        prefixes == {n \in 1..Len(text.v) : Text(SubSeq(text.v, 1, n)) \in DOMAIN keywords}
        shortest == CHOOSE n \in prefixes : \A m \in prefixes : n <= m
    IN  IF s.panic THEN s
        ELSE IF ~text.some THEN Panic(s)
        ELSE add_token(s, IF prefixes # {}
                          THEN keywords[Text(SubSeq(text.v, 1, shortest))]
                          ELSE "Identifier")

identifier(sc) ==
    LET token(s) ==
            LET text == slice(s.source, s.start, s.current)
                word == Text(text.v)
            IN  IF s.panic THEN s
                ELSE IF ~text.some THEN Panic(s)
                ELSE add_token(s, IF word \in DOMAIN keywords THEN keywords[word]
                                  ELSE "Identifier")
    IN  token(identifier_loop(sc))

RECURSIVE comment_loop(_)

\* while self.peek() != '\n' && !self.is_at_end()
comment_loop(sc) ==
    LET p == Scanner_peek(sc)
    IN  IF sc.panic THEN sc
        ELSE IF ~p.some THEN Panic(sc)
        ELSE IF p.v # "\n" /\ ~Scanner_is_at_end(sc)
        THEN comment_loop(Scanner_advance(sc).sc)
        ELSE sc

\* the arms of scan_token that add one token whatever follows
SingleCharTokens ==
    [c \in {"(", ")", "{", "}", ",", ".", "-", "+", ";", "*"} |->
        CASE c = "(" -> "LeftParen"
          [] c = ")" -> "RightParen"
          [] c = "{" -> "LeftBrace"
          [] c = "}" -> "RightBrace"
          [] c = "," -> "Comma"
          [] c = "." -> "Dot"
          [] c = "-" -> "Minus"
          [] c = "+" -> "Plus"
          [] c = ";" -> "Semicolon"
          [] c = "*" -> "Star"]

\* the arms of scan_token that look for a following `=`: the token type
\* without it and with it
OneOrTwoCharTokens ==
    [c \in {"!", "=", "<", ">"} |->
        CASE c = "!" -> <<"Bang", "BangEqual">>
          [] c = "=" -> <<"Equal", "EqualEqual">>
          [] c = "<" -> <<"Less", "LessEqual">>
          [] c = ">" -> <<"Greater", "GreaterEqual">>]

scan_token(sc) ==
    LET a == Scanner_advance(sc)
        c == a.c
        s == a.sc
    IN  IF s.panic THEN s
        ELSE IF c \in DOMAIN SingleCharTokens THEN add_token(s, SingleCharTokens[c])
        ELSE IF c \in DOMAIN OneOrTwoCharTokens
        THEN LET m == token_match(s, "=")
             IN  add_token(m.sc, OneOrTwoCharTokens[c][IF m.matched THEN 2 ELSE 1])
        ELSE IF c = "/"
        THEN LET m == token_match(s, "/")
             IN  IF m.matched THEN comment_loop(m.sc) ELSE add_token(m.sc, "Slash")
        ELSE IF c \in {" ", "\r", "\t"} THEN s
        ELSE IF c = "\n" THEN [s EXCEPT !.line = @ + 1]
        ELSE IF c = "\"" THEN string(s)
        ELSE IF is_digit(c) THEN number(s)
        ELSE IF is_alpha(c) THEN identifier(s)
        ELSE eprintln(s, "Unexpected character")

RECURSIVE scan_loop(_)

\* while !self.is_at_end() { self.start = self.current; self.scan_token(); }
scan_loop(sc) ==
    IF sc.panic \/ Scanner_is_at_end(sc) THEN sc
    ELSE scan_loop(scan_token([sc EXCEPT !.start = sc.current]))

\* scan_tokens: the scanner it leaves and the Vec it returns (none on a panic)
scan_tokens(sc) ==
    LET s == scan_loop(sc)
        done == [s EXCEPT !.tokens = Append(@, Token("Eof", "", None, s.line))]
    IN  IF s.panic THEN [sc |-> s, tokens |-> <<>>]
        ELSE [sc |-> done, tokens |-> done.tokens]

---------------------------------------------------------------------------
(* ast_printer.rs.  The String print returns is the sequence of its chars. *)

\* the chars of the strings that tokens and values of the model hold
Spellings ==
    {<<c>> : c \in {"(", ")", "{", "}", ",", ".", "-", "+", ";", "/", "*", "!", "=",
                    "<", ">", "a", "x", "1", " "}}
    \cup {<<>>, <<"!", "=">>, <<"=", "=">>, <<">", "=">>, <<"<", "=">>,
          <<"o", "r">>, <<"t", "h", "i", "s">>, <<"s", "u", "p", "e", "r">>}

\* the chars of a string
Chars(s) == CHOOSE cs \in Spellings : Text(cs) = s

RECURSIVE DigitChars(_)

\* the decimal digits of a natural number
DigitChars(n) ==
    IF n < 10 THEN <<ToString(n)>>
    ELSE DigitChars(n \div 10) \o <<ToString(n % 10)>>

RECURSIVE DecimalPlaces(_, _)

\* the least k' >= k with den dividing 10^k': the number of decimal places of
\* a fraction of denominator den (one whose decimal expansion ends)
DecimalPlaces(den, k) == IF Pow10(k) % den = 0 THEN k ELSE DecimalPlaces(den, k + 1)

RECURSIVE Zeros(_)

Zeros(n) == IF n <= 0 THEN <<>> ELSE <<"0">> \o Zeros(n - 1)

\* f64::to_string for a number whose decimal expansion ends: no decimal point
\* for an integer, no exponent, the shortest digits otherwise
f64_to_string(r) ==
    LET k == DecimalPlaces(r.den, 0)
        scaled == Abs(r.num) * (Pow10(k) \div r.den)
        int == DigitChars(scaled \div Pow10(k))
        frac == DigitChars(scaled % Pow10(k))
        sign == IF r.num < 0 THEN <<"-">> ELSE <<>>
    IN  IF k = 0 THEN sign \o int
        ELSE sign \o int \o <<".">> \o Zeros(k - Len(frac)) \o frac

RECURSIVE AstPrinter_print(_)
RECURSIVE print_each(_)

\* for expr in exprs { result.push(' '); result.push_str(&self.print(expr)); }
print_each(exprs) ==
    IF exprs = <<>> THEN <<>>
    ELSE <<" ">> \o AstPrinter_print(exprs[1]) \o print_each(Tail(exprs))

\* mutant: the closing parenthesis is not pushed
parenthesize_unclosed(name, exprs) == <<"(">> \o name \o print_each(exprs)

parenthesize(name, exprs) == <<"(">> \o name \o print_each(exprs) \o <<")">>

AstPrinter_visit_binary(expr) ==
    parenthesize(Chars(expr.operator.lexeme), <<expr.left, expr.right>>)

AstPrinter_visit_grouping(expr) ==
    parenthesize(<<"g", "r", "o", "u", "p">>, <<expr.expression>>)

AstPrinter_visit_literal(expr) ==
    CASE expr.value.kind = "Number" -> f64_to_string(expr.value.n)
      [] expr.value.kind = "String" -> Chars(expr.value.s)
      [] expr.value.kind = "Bool" ->
            IF expr.value.b THEN <<"t", "r", "u", "e">> ELSE <<"f", "a", "l", "s", "e">>
      [] expr.value.kind = "Nil" -> <<"n", "i", "l">>

AstPrinter_visit_unary(expr) == parenthesize(Chars(expr.operator.lexeme), <<expr.right>>)

AstPrinter_print(expr) ==
    CASE expr.node = "Binary" -> AstPrinter_visit_binary(expr)
      [] expr.node = "Grouping" -> AstPrinter_visit_grouping(expr)
      [] expr.node = "Literal" -> AstPrinter_visit_literal(expr)
      [] expr.node = "Unary" -> AstPrinter_visit_unary(expr)
      [] OTHER -> <<"(", "n", "o", "t", " ", "i", "m", "p", "l", "e", "m", "e", "n",
                    "t", "e", "d", ")">>

---------------------------------------------------------------------------
(* Inputs of the parser: token sequences that end with Eof.  Token i of a  *)
(* generated sequence is on line i, so that equal tokens at different      *)
(* positions are different values.                                         *)

\* The text the scanner gives a token of each type (one text for the literal types).
Lexeme(token_type) ==
    CASE token_type = "LeftParen" -> "("
      [] token_type = "RightParen" -> ")"
      [] token_type = "LeftBrace" -> "{"
      [] token_type = "RightBrace" -> "}"
      [] token_type = "Comma" -> ","
      [] token_type = "Dot" -> "."
      [] token_type = "Minus" -> "-"
      [] token_type = "Plus" -> "+"
      [] token_type = "Semicolon" -> ";"
      [] token_type = "Slash" -> "/"
      [] token_type = "Star" -> "*"
      [] token_type = "Bang" -> "!"
      [] token_type = "BangEqual" -> "!="
      [] token_type = "Equal" -> "="
      [] token_type = "EqualEqual" -> "=="
      [] token_type = "Greater" -> ">"
      [] token_type = "GreaterEqual" -> ">="
      [] token_type = "Less" -> "<"
      [] token_type = "LessEqual" -> "<="
      [] token_type = "Identifier" -> "x"
      [] token_type = "String" -> "\"a\""
      [] token_type = "Number" -> "2"
      [] token_type = "And" -> "and"
      [] token_type = "Class" -> "class"
      [] token_type = "Else" -> "else"
      [] token_type = "False" -> "false"
      [] token_type = "Fun" -> "fun"
      [] token_type = "For" -> "for"
      [] token_type = "If" -> "if"
      [] token_type = "Nil" -> "nil"
      [] token_type = "Or" -> "or"
      [] token_type = "Print" -> "print"
      [] token_type = "Return" -> "return"
      [] token_type = "Super" -> "super"
      [] token_type = "This" -> "this"
      [] token_type = "True" -> "true"
      [] token_type = "Var" -> "var"
      [] token_type = "While" -> "while"
      [] token_type = "Eof" -> ""

\* A token kind is a token type, or the Number token test_make_parser builds by
\* hand: one without a payload.
CoreKinds ==
    {"Number", "LeftParen", "RightParen", "Plus", "Minus", "Star", "Semicolon"}

TokenKinds == (TokenType \ {"Eof"}) \cup {"NumberNoPayload"}

Cost(kind) == IF kind \in CoreKinds THEN 1 ELSE 3

NumberToken(n, line) == Token("Number", ToString(n), Some(NumberV(Rat(n, 1))), line)

KindToken(kind, line) ==
    CASE kind = "Number" -> NumberToken(2, line)
      [] kind = "String" -> Token("String", Lexeme("String"), Some(StringV("a")), line)
      [] kind = "NumberNoPayload" -> Token("Number", "42", None, line)
      [] OTHER -> Token(kind, Lexeme(kind), None, line)

EofToken(line) == Token("Eof", "", None, line)

RECURSIVE KindSeqs(_)

\* the sequences of token kinds of total cost at most c
KindSeqs(c) ==
    {<<>>} \cup
    UNION { { <<k>> \o s : s \in KindSeqs(c - Cost(k)) } :
            k \in {k \in TokenKinds : Cost(k) <= c} }

\* the tokens of a sequence of kinds, closed by Eof
TokensOf(kinds) ==
    [i \in 1..(Len(kinds) + 1) |->
        IF i <= Len(kinds) THEN KindToken(kinds[i], i) ELSE EofToken(i)]

BinaryOps ==
    {"BangEqual", "EqualEqual", "Greater", "GreaterEqual", "Less", "LessEqual",
     "Minus", "Plus", "Slash", "Star"}

\* the operands of a generated chain: 2 and (2 == 2)
ChainOperands ==
    { <<"Number">>, <<"LeftParen", "Number", "EqualEqual", "Number", "RightParen">> }

RECURSIVE ChainSeqs(_)

\* operand (op operand)^n for n at most `ops`
ChainSeqs(ops) ==
    IF ops = 0 THEN ChainOperands
    ELSE ChainSeqs(ops - 1) \cup
         { s \o <<o>> \o a : s \in ChainSeqs(ops - 1), o \in BinaryOps, a \in ChainOperands }

\* tokens of the sources the specification names
Example(kindsAndNumbers) ==
    [i \in 1..(Len(kindsAndNumbers) + 1) |->
        IF i > Len(kindsAndNumbers) THEN EofToken(i)
        ELSE IF kindsAndNumbers[i] \in TokenKinds THEN KindToken(kindsAndNumbers[i], i)
        ELSE NumberToken(kindsAndNumbers[i][1], i)]

N(n) == <<n>>

ExampleTokens ==
    { Example(<<N(2), "Plus", N(3), "Star", N(4)>>),       \* 2 + 3 * 4
      Example(<<N(8), "Minus", N(4), "Minus", N(2)>>),     \* 8 - 4 - 2
      Example(<<"LeftParen", N(1)>>),                      \* ( 1
      Example(<<"Minus", "Minus", N(5)>>),                 \* --5
      Example(<<"Minus", N(5), "Plus", N(3)>>),            \* -5 + 3
      Example(<<"Bang", "Minus", "Bang", N(5)>>),          \* !-!5
      Example(<<N(1), N(2)>>),                             \* 1 2
      Example(<<N(1), "RightParen">>) }                    \* 1 )

ParserInputs ==
    {TokensOf(s) : s \in KindSeqs(MaxCost) \cup ChainSeqs(MaxOps)} \cup ExampleTokens

---------------------------------------------------------------------------
(* The parser as a state machine: a caller holds one Parser and calls its  *)
(* public methods; a panic ends the run.                                   *)

NoResult == [kind |-> "None"]

Panicked == [kind |-> "Panic"]

OkResult(expr) == [kind |-> "Ok", expr |-> expr]

ErrResult(error) == [kind |-> "Err", error |-> error]

Call(op, from, before) == [op |-> op, from |-> from, before |-> before]

\* no tree has been handed to the evaluator
EvalIdle == tree = Literal(NilV) /\ eresult = NoResult /\ printed = NoResult

\* no scanner has been built
ScannerIdle ==
    /\ scanner = Scanner_new(<<>>)
    /\ sresult = NoResult
    /\ scans = 0

\* Parser::new(tokens)
ParserInit ==
    /\ tokens \in ParserInputs
    /\ current = 0
    /\ presult = NoResult
    /\ pcall = Call("new", 0, "None")
    /\ EvalIdle
    /\ ScannerIdle

\* parser.parse()
Parse ==
    /\ presult.kind # "Panic"
    /\ LET r == parse(current)
       IN  /\ current' = r.cur
           /\ presult' = IF r.ok THEN OkResult(r.expr) ELSE ErrResult(r.error)
    /\ pcall' = Call("parse", current, presult.kind)
    /\ UNCHANGED <<tokens, evars, svars, printed>>

\* parser.synchronize()
Synchronize ==
    /\ presult.kind # "Panic"
    /\ LET s == synchronize(current)
       IN  /\ current' = s.cur
           /\ presult' = IF s.panic THEN Panicked ELSE NoResult
    /\ pcall' = Call("synchronize", current, presult.kind)
    /\ UNCHANGED <<tokens, evars, svars, printed>>

ParserNext == Parse \/ Synchronize

SpecParser == ParserInit /\ [][ParserNext]_vars

---------------------------------------------------------------------------
(* The evaluator as a state machine: a caller builds a tree bottom-up, as  *)
(* the tests of interpreter.rs do, and hands it to Interpreter::evaluate.  *)
(* The k-th operator token made for a tree is on line k, so that the       *)
(* operator tokens of a tree are different values.                         *)

LeafValues == {NumberV(Rat(0, 1)), NumberV(Rat(2, 1)), StringV("a"), NilV}

UnaryOps == {"Bang", "Minus"}

OpToken(token_type, line) == Token(token_type, Lexeme(token_type), None, line)

RECURSIVE Size(_)

\* the number of nodes of a tree
Size(e) ==
    CASE e.node = "Binary" -> 1 + Size(e.left) + Size(e.right)
      [] e.node = "Unary" -> 1 + Size(e.right)
      [] e.node = "Grouping" -> 1 + Size(e.expression)
      [] OTHER -> 1

RECURSIVE Operators(_)

\* the number of operator tokens of a tree
Operators(e) ==
    CASE e.node = "Binary" -> 1 + Operators(e.left) + Operators(e.right)
      [] e.node = "Unary" -> 1 + Operators(e.right)
      [] e.node = "Grouping" -> Operators(e.expression)
      [] OTHER -> 0

\* the operands a caller combines a tree with: a literal, or a literal under
\* one prefix operator (its token on `line`) or in parentheses
SmallTrees(line) ==
    {Literal(v) : v \in LeafValues}
    \cup {Unary(OpToken(o, line), Literal(v)) : o \in UnaryOps, v \in LeafValues}
    \cup {Grouping(Literal(v)) : v \in LeafValues}

\* no parser has been built
ParserIdle ==
    /\ tokens = <<EofToken(1)>>
    /\ current = 0
    /\ presult = NoResult
    /\ pcall = Call("none", 0, "None")

EvalInit ==
    /\ tree \in {Literal(v) : v \in LeafValues}
    /\ eresult = NoResult
    /\ printed = NoResult
    /\ ParserIdle
    /\ ScannerIdle

\* Expr::Unary(Unary { operator, right: Box::new(tree) })
BuildUnary ==
    /\ eresult = NoResult
    /\ Size(tree) < MaxNodes
    /\ LET line == Operators(tree) + 1
       IN  \E o \in UnaryOps : tree' = Unary(OpToken(o, line), tree)
    /\ UNCHANGED <<eresult, pvars, svars, printed>>

\* Expr::Grouping(Grouping { expression: Box::new(tree) })
BuildGrouping ==
    /\ eresult = NoResult
    /\ Size(tree) < MaxNodes
    /\ tree' = Grouping(tree)
    /\ UNCHANGED <<eresult, pvars, svars, printed>>

\* Expr::Binary(Binary { left, operator, right }) with the tree as one operand
BuildBinary ==
    /\ eresult = NoResult
    /\ LET size == Size(tree)
           line == Operators(tree) + 1
       IN  /\ size + 1 < MaxNodes
           /\ \E other \in SmallTrees(line) :
                 /\ size + Size(other) < MaxNodes
                 /\ \E o \in BinaryOps :
                       LET operator == OpToken(o, line + Operators(other))
                       IN  \/ tree' = Binary(tree, operator, other)
                           \/ tree' = Binary(other, operator, tree)
    /\ UNCHANGED <<eresult, pvars, svars, printed>>

\* interpreter.evaluate(&tree)
Evaluate ==
    /\ eresult = NoResult
    /\ eresult' = evaluate(tree)
    /\ UNCHANGED <<tree, pvars, svars, printed>>

EvalNext == BuildUnary \/ BuildGrouping \/ BuildBinary \/ Evaluate

SpecEval == EvalInit /\ [][EvalNext]_vars

---------------------------------------------------------------------------
(* The evaluator on operands of every kind: a caller hands evaluate one    *)
(* operand, or combines two operands under a binary operator first.  An    *)
(* operand is a literal or a node of a shape evaluate does not implement,  *)
(* bare, in parentheses or under one prefix operator.                      *)

NumberValues == {NumberV(Rat(n, 1)) : n \in 0..MaxNumber}

OperandValues ==
    NumberValues \cup
    {StringV(""), StringV("1"), StringV("a"), BoolV(TRUE), BoolV(FALSE), NilV}

\* the variants of Expr that evaluate sends to its `_` arm
ReservedShapes == {"Assign", "Call", "Get", "Logical", "Set", "Super", "This", "Variable"}

\* the token type of the token a node of each reserved shape holds: the name of
\* Assign, Get, Set and Variable, the paren of Call, the operator of Logical,
\* the keyword of Super and This
ReservedTokenType(shape) ==
    CASE shape \in {"Assign", "Get", "Set", "Variable"} -> "Identifier"
      [] shape = "Call" -> "RightParen"
      [] shape = "Logical" -> "Or"
      [] shape = "Super" -> "Super"
      [] shape = "This" -> "This"

\* a node of a reserved shape with its token on `line`; evaluate reads none of
\* its fields, and its sub-expressions are left out
Reserved(shape, line) == [node |-> shape, token |-> OpToken(ReservedTokenType(shape), line)]

\* token types evaluate may find in an operator position: those the parser
\* puts there, and one it never does
OperandUnaryOps == UnaryOps \cup {"Plus"}

OperandBinaryOps == BinaryOps \cup {"Bang"}

OperandLeaves(line) ==
    {Literal(v) : v \in OperandValues} \cup {Reserved(s, line) : s \in ReservedShapes}

\* the operands, their tokens on `line`
Operands(line) ==
    OperandLeaves(line)
    \cup {Grouping(e) : e \in OperandLeaves(line)}
    \cup {Unary(OpToken(o, line), e) : o \in OperandUnaryOps, e \in OperandLeaves(line)}

OperandsInit ==
    /\ tree \in Operands(1)
    /\ eresult = NoResult
    /\ printed = NoResult
    /\ ParserIdle
    /\ ScannerIdle

\* Expr::Binary(Binary { left: tree, operator, right })
CombineOperands ==
    /\ eresult = NoResult
    /\ tree.node # "Binary"
    /\ \E o \in OperandBinaryOps, right \in Operands(3) :
          tree' = Binary(tree, OpToken(o, 2), right)
    /\ UNCHANGED <<eresult, pvars, svars, printed>>

OperandsNext == CombineOperands \/ Evaluate

SpecOperands == OperandsInit /\ [][OperandsNext]_vars

---------------------------------------------------------------------------
(* The printer as a state machine: a caller builds a tree bottom-up, as    *)
(* the tests of ast_printer.rs do, and hands it to AstPrinter::print.      *)

PrintedText(chars) == [kind |-> "Text", chars |-> chars]

\* the literals of the printed trees: the numbers of test_book_example, a
\* String of a letter and one of a parenthesis, a Bool and Nil
PrintValues ==
    {NumberV(Rat(123, 1)), NumberV(Rat(4567, 100)), StringV("a"), StringV("("),
     BoolV(TRUE), NilV}

PrintBinaryOps == {"Star", "LessEqual"}

\* the operands a caller combines a tree with, a prefix operator token on `line`
PrintOperands(line) ==
    {Literal(v) : v \in PrintValues}
    \cup {Grouping(Literal(v)) : v \in PrintValues}
    \cup {Unary(OpToken(o, line), Literal(v)) : o \in UnaryOps, v \in PrintValues}

PrinterInit ==
    /\ tree \in {Literal(v) : v \in PrintValues} \cup {Reserved("Variable", 1)}
    /\ eresult = NoResult
    /\ printed = NoResult
    /\ ParserIdle
    /\ ScannerIdle

\* Expr::Unary(Unary { operator, right: Box::new(tree) })
WrapUnary ==
    /\ printed = NoResult
    /\ Size(tree) < MaxNodes
    /\ \E o \in UnaryOps : tree' = Unary(OpToken(o, Operators(tree) + 1), tree)
    /\ UNCHANGED <<eresult, pvars, svars, printed>>

\* Expr::Grouping(Grouping { expression: Box::new(tree) })
WrapGrouping ==
    /\ printed = NoResult
    /\ Size(tree) < MaxNodes
    /\ tree' = Grouping(tree)
    /\ UNCHANGED <<eresult, pvars, svars, printed>>

\* Expr::Binary(Binary { left, operator, right }) with the tree as one operand
WrapBinary ==
    /\ printed = NoResult
    /\ LET size == Size(tree)
           line == Operators(tree) + 1
       IN  \E other \in PrintOperands(line) :
              /\ size + Size(other) < MaxNodes
              /\ \E o \in PrintBinaryOps :
                    LET operator == OpToken(o, line + Operators(other))
                    IN  \/ tree' = Binary(tree, operator, other)
                        \/ tree' = Binary(other, operator, tree)
    /\ UNCHANGED <<eresult, pvars, svars, printed>>

\* printer.print(&tree)
PrintTree ==
    /\ printed = NoResult
    /\ printed' = PrintedText(AstPrinter_print(tree))
    /\ UNCHANGED <<tree, eresult, pvars, svars>>

PrinterNext == WrapUnary \/ WrapGrouping \/ WrapBinary \/ PrintTree

SpecPrinter == PrinterInit /\ [][PrinterNext]_vars

---------------------------------------------------------------------------
(* The scanner as a state machine: a caller builds a Scanner on a source   *)
(* and calls scan_tokens, any number of times; a panic ends the run.       *)

\* the chars sources are made of: one for each arm of scan_token, `@` for
\* the ASCII chars no arm takes and a char outside ASCII
SourceChars == {"(", "!", "=", "/", "\n", "\"", "1", ".", "a", "@", "é", " "}

RECURSIVE Sources(_)

\* the sources of at most n chars
Sources(n) ==
    IF n = 0 THEN {<<>>}
    ELSE LET shorter == Sources(n - 1)
         IN  shorter \cup {Append(s, c) : s \in shorter, c \in SourceChars}

TokensResult(returned) == [kind |-> "Tokens", tokens |-> returned]

\* the chars of the operators that may take a trailing `=`, and the space
OperatorChars == {"!", "=", "<", ">", " "}

RECURSIVE OperatorSources(_)

\* the sources of at most n operator chars
OperatorSources(n) ==
    IF n = 0 THEN {<<>>}
    ELSE LET shorter == OperatorSources(n - 1)
         IN  shorter \cup {Append(s, c) : s \in shorter, c \in OperatorChars}

\* sources of the tests of scanner.rs
ExampleSources ==
    { <<"<", "=", ">", "=", "<", ">">>,     \* <=>=<>
      <<"!", " ", "!", "=">>,               \* ! !=
      <<"=", " ", "=", "=">> }              \* = ==

RECURSIVE SourcesOver(_, _)

\* the sources of at most n chars of an alphabet
SourcesOver(alphabet, n) ==
    IF n = 0 THEN {<<>>}
    ELSE LET shorter == SourcesOver(alphabet, n - 1)
         IN  shorter \cup {Append(s, c) : s \in shorter, c \in alphabet}

\* the chars of the keywords `or`, `if` and `for`, a digit, `_` and the space
WordChars == {"o", "r", "i", "f", "1", "_", " "}

\* the 16 keys of the keyword table, as sources
KeywordSources ==
    { <<"a", "n", "d">>,
      <<"c", "l", "a", "s", "s">>,
      <<"e", "l", "s", "e">>,
      <<"f", "a", "l", "s", "e">>,
      <<"f", "o", "r">>,
      <<"f", "u", "n">>,
      <<"i", "f">>,
      <<"n", "i", "l">>,
      <<"o", "r">>,
      <<"p", "r", "i", "n", "t">>,
      <<"r", "e", "t", "u", "r", "n">>,
      <<"s", "u", "p", "e", "r">>,
      <<"t", "h", "i", "s">>,
      <<"t", "r", "u", "e">>,
      <<"v", "a", "r">>,
      <<"w", "h", "i", "l", "e">> }

\* sources of the identifier tests of scanner.rs
IdentifierSources ==
    { <<"v", "a", "r", "s", "i", "t", "y">>,
      <<"m", "y", "v", "a", "r">>,
      <<"v", "a", "r", "1", "2", "3">>,
      <<"v", "a", "r", " ", "v", "a", "r", "i", "a", "b", "l", "e">> }

\* the chars that open and close strings and comments and end lines, and a
\* letter
LineChars == {"\"", "/", "\n", "a"}

\* sources of the string tests of scanner.rs
StringSources ==
    { <<"\"", "h", "e", "l", "l", "o", "\n", "w", "o", "r", "l", "d", "\"">>,
      <<"\"", "l", "i", "n", "e", "1", "\n", "l", "i", "n", "e", "2", "\"", "\n", "v", "a", "r">>,
      <<"\"", "u", "n", "t", "e", "r", "m", "i", "n", "a", "t", "e", "d">> }

\* two digits, the dot and the space
NumberChars == {"1", "5", ".", " "}

\* sources of the number tests of scanner.rs
NumberSources ==
    { <<"1", "2", "3", ".", "4", "5", "6">>,
      <<"1", " ", "2", ".", "5", " ", "1", "0", "0">> }

ScannerInputs ==
    Sources(MaxSourceLen) \cup OperatorSources(MaxSourceLen + 1) \cup ExampleSources
        \cup SourcesOver(WordChars, MaxSourceLen) \cup KeywordSources
        \cup IdentifierSources
        \cup SourcesOver(LineChars, MaxSourceLen + 1) \cup StringSources
        \cup SourcesOver(NumberChars, MaxSourceLen + 1) \cup NumberSources

\* Scanner::new(source)
ScannerInit ==
    /\ \E source \in ScannerInputs : scanner = Scanner_new(source)
    /\ sresult = NoResult
    /\ scans = 0
    /\ ParserIdle
    /\ EvalIdle

\* scanner.scan_tokens()
ScanTokens ==
    /\ sresult.kind # "Panic"
    /\ scans < MaxScans
    /\ LET r == scan_tokens(scanner)
       IN  /\ scanner' = r.sc
           /\ sresult' = IF r.sc.panic THEN Panicked ELSE TokensResult(r.tokens)
    /\ scans' = scans + 1
    /\ UNCHANGED <<pvars, evars, printed>>

ScannerNext == ScanTokens

SpecScanner == ScannerInit /\ [][ScannerNext]_vars

---------------------------------------------------------------------------
(* The public methods of the parser as a state machine: a caller holds one *)
(* Parser and calls parse, expression, synchronize, advance, match_tokens  *)
(* and check in any order; a panic ends the run.                           *)

MaxTokens == 3

\* the token kinds of the sequences the methods are called on
ApiKinds == {"Number", "LeftParen", "RightParen", "Plus", "Semicolon"}

\* the sequences of at most MaxTokens kinds, closed by Eof
ApiInputs == {TokensOf(s) : s \in SourcesOver(ApiKinds, MaxTokens)}

\* slices of token types the rules of the grammar hand to match_tokens
MatchSets == {LevelOperators("term"), {"Number", "String"}, {"LeftParen"}}

\* the token type the grammar hands to check (through consume), and another
CheckTypes == {"RightParen", "Semicolon"}

BoolResult(b) == [kind |-> "Bool", value |-> b]

TokenResult(token) == [kind |-> "Token", token |-> token]

ApiInit ==
    /\ tokens \in ApiInputs
    /\ current = 0
    /\ presult = NoResult
    /\ pcall = Call("new", 0, "None")
    /\ EvalIdle
    /\ ScannerIdle

\* parser.expression()
Expression ==
    /\ presult.kind # "Panic"
    /\ LET r == expression(current)
       IN  /\ current' = r.cur
           /\ presult' = IF r.ok THEN OkResult(r.expr) ELSE Panicked
    /\ pcall' = Call("expression", current, presult.kind)
    /\ UNCHANGED <<tokens, evars, svars, printed>>

\* parser.advance()
Advance ==
    /\ presult.kind # "Panic"
    /\ LET a == advance(current)
       IN  /\ current' = a.cur
           /\ presult' = IF a.panic THEN Panicked ELSE TokenResult(previous(a.cur))
    /\ pcall' = Call("advance", current, presult.kind)
    /\ UNCHANGED <<tokens, evars, svars, printed>>

\* parser.match_tokens(types)
MatchTokens ==
    /\ presult.kind # "Panic"
    /\ \E types \in MatchSets :
          LET m == match_tokens(current, types)
          IN  /\ current' = m.cur
              /\ presult' = BoolResult(m.matched)
    /\ pcall' = Call("match_tokens", current, presult.kind)
    /\ UNCHANGED <<tokens, evars, svars, printed>>

\* parser.check(token_type)
Check ==
    /\ presult.kind # "Panic"
    /\ \E token_type \in CheckTypes : presult' = BoolResult(check(current, token_type))
    /\ pcall' = Call("check", current, presult.kind)
    /\ UNCHANGED <<tokens, current, evars, svars, printed>>

ApiNext == Parse \/ Expression \/ Synchronize \/ Advance \/ MatchTokens \/ Check

SpecApi == ApiInit /\ [][ApiNext]_vars

---------------------------------------------------------------------------
(* A driver of the parser: while the next token is not Eof it calls parse  *)
(* and, when parse returns a ParseFailure, synchronize.  The loop is       *)
(* sequential code: it takes its next step whenever it has one.            *)

\* the token kinds of the sequences the driver runs on: a literal and the two
\* kinds of boundary of synchronize, with which no expression starts
DriverKinds == {"Number", "Semicolon", "Var"}

\* Parser::new(tokens), on a sequence of at most MaxTokens kinds closed by Eof
DriverInit ==
    /\ tokens \in {TokensOf(s) : s \in SourcesOver(DriverKinds, MaxTokens)}
    /\ current = 0
    /\ presult = NoResult
    /\ pcall = Call("new", 0, "None")
    /\ EvalIdle
    /\ ScannerIdle

\* the call of parse at the head of the loop body
DriverParse ==
    /\ presult.kind # "Err"
    /\ ~is_at_end(current)
    /\ Parse

\* the call of synchronize after a ParseFailure
DriverSynchronize ==
    /\ presult.kind = "Err"
    /\ Synchronize

DriverNext == DriverParse \/ DriverSynchronize

\* the loop is at a call: the record of the call it makes next
DriverCall ==
    /\ presult.kind # "Panic"
    /\ presult.kind = "Err" \/ ~is_at_end(current)
    /\ pcall' = Call(IF presult.kind = "Err" THEN "synchronize" ELSE "parse",
                     current, presult.kind)

\* the loop makes the call it is at: whenever DriverNext can take a step,
\* DriverCall names the call of that step
SpecDriver == DriverInit /\ [][DriverNext]_vars /\ WF_pcall(DriverCall)

---------------------------------------------------------------------------
(* Trees *)

RECURSIVE Subtrees(_)

\* the nodes of a tree of Literal, Unary, Binary and Grouping nodes
Subtrees(e) ==
    {e} \cup
    CASE e.node = "Binary" -> Subtrees(e.left) \cup Subtrees(e.right)
      [] e.node = "Unary" -> Subtrees(e.right)
      [] e.node = "Grouping" -> Subtrees(e.expression)
      [] OTHER -> {}

\* the rung of a binary operator on the ladder of the grammar, lowest binding first
LadderLevel(token_type) ==
    CASE token_type \in {"BangEqual", "EqualEqual"} -> 1
      [] token_type \in {"Greater", "GreaterEqual", "Less", "LessEqual"} -> 2
      [] token_type \in {"Minus", "Plus"} -> 3
      [] token_type \in {"Slash", "Star"} -> 4

ParsedOk == pcall.op = "parse" /\ presult.kind = "Ok"

ParsedErr == pcall.op = "parse" /\ presult.kind = "Err"

Lit(n) == Literal(NumberV(Rat(n, 1)))

---------------------------------------------------------------------------
(* Claims about the parser, checked under SpecParser *)

\* C1: in every tree parse returns, an operand of a Binary node is never an
\* ungrouped Binary node of a lower rung of the ladder equality < comparison <
\* term < factor, and the tokens of 2 + 3 * 4 parse to (+ 2 (* 3 4)).
C1_PrecedenceLadder ==
    ParsedOk =>
        /\ \A b \in Subtrees(presult.expr) :
              b.node = "Binary" =>
                \A o \in {b.left, b.right} :
                    o.node = "Binary" =>
                        LadderLevel(o.operator.token_type) >= LadderLevel(b.operator.token_type)
        /\ (tokens = Example(<<N(2), "Plus", N(3), "Star", N(4)>>) /\ pcall.from = 0) =>
              /\ presult.expr = Binary(Lit(2), tokens[2], Binary(Lit(3), tokens[4], Lit(4)))
              /\ evaluate(presult.expr).ok
              /\ evaluate(presult.expr).value = NumberV(Rat(14, 1))

\* a parse returned a Binary node whose right operand is a Binary of a higher
\* rung, and one whose operand is a Grouping that holds a Binary of a lower rung
C1_Witness ==
    /\ ParsedOk
    /\ presult.expr.node = "Binary"
    /\ presult.expr.operator.token_type = "Plus"
    /\ presult.expr.right.node = "Binary"
    /\ presult.expr.right.operator.token_type = "Star"
    /\ presult.expr.left.node = "Grouping"
    /\ presult.expr.left.expression.node = "Binary"
    /\ presult.expr.left.expression.operator.token_type = "EqualEqual"

\* C2: every binary level is left-associative: the right operand of a Binary
\* node is never an ungrouped Binary node of the same level, and a chain
\* a op1 b op2 c of one level parses to Binary(Binary(a, op1, b), op2, c).
C2_LeftAssociative ==
    ParsedOk =>
        /\ \A b \in Subtrees(presult.expr) :
              (b.node = "Binary" /\ b.right.node = "Binary") =>
                  LadderLevel(b.right.operator.token_type) # LadderLevel(b.operator.token_type)
        /\ \A o1, o2 \in BinaryOps :
              ( /\ LadderLevel(o1) = LadderLevel(o2)
                /\ tokens = TokensOf(<<"Number", o1, "Number", o2, "Number">>)
                /\ pcall.from = 0 ) =>
                  /\ presult.expr = Binary(Binary(Lit(2), tokens[2], Lit(2)), tokens[4], Lit(2))
                  /\ current = 5
        /\ (tokens = Example(<<N(8), "Minus", N(4), "Minus", N(2)>>) /\ pcall.from = 0) =>
              /\ evaluate(presult.expr).ok
              /\ evaluate(presult.expr).value = NumberV(Rat(2, 1))

\* a chain of two different operators of one level was parsed to a left-leaning tree
C2_Witness ==
    /\ ParsedOk
    /\ tokens = TokensOf(<<"Number", "Slash", "Number", "Star", "Number">>)
    /\ presult.expr.node = "Binary"
    /\ presult.expr.left.node = "Binary"
    /\ presult.expr.left.operator.token_type = "Slash"
    /\ presult.expr.operator.token_type = "Star"

\* C5: after parse returned a ParseFailure, synchronize returns normally,
\* wherever the failure occurred (the first token and Eof included).
C5_SynchronizeReturnsAfterFailure ==
    (pcall.op = "synchronize" /\ pcall.before = "Err") => presult.kind # "Panic"

\* a point where synchronize stops: the input is at its end, the token just
\* consumed is `;`, or the next token starts a statement
Boundary(cur) ==
    \/ is_at_end(cur)
    \/ (cur >= 1 /\ previous(cur).token_type = "Semicolon")
    \/ peek(cur).token_type \in SyncKeywords

Synchronized == pcall.op = "synchronize" /\ presult.kind # "Panic"

\* C6: when synchronize returns, the cursor is at a boundary (the last consumed
\* token is `;`, or the next token is a statement keyword or Eof), and it is the
\* first boundary at or after the position its initial advance() reached.
C6_SynchronizeStopsAtFirstBoundary ==
    Synchronized =>
        LET first == IF is_at_end(pcall.from) THEN pcall.from ELSE pcall.from + 1
        IN  /\ current >= first
            /\ Boundary(current)
            /\ \A c \in first..(current - 1) : ~Boundary(c)

\* synchronize discarded two tokens, the second a `;`, and stopped before a
\* token that is neither a keyword nor Eof
C6_Witness ==
    /\ Synchronized
    /\ current = pcall.from + 2
    /\ previous(current).token_type = "Semicolon"
    /\ ~is_at_end(current)
    /\ peek(current).token_type \notin SyncKeywords

\* synchronize stopped before a statement keyword after discarding one token
C6_WitnessKeyword ==
    /\ Synchronized
    /\ current = pcall.from + 1
    /\ previous(current).token_type # "Semicolon"
    /\ peek(current).token_type \in SyncKeywords

ExpectParen == "Expect ')' after expression."

\* C7: when the token after a parenthesized expression is not `)`, parse returns
\* the failure "Expect ')' after expression." with the token found there, and
\* leaves the cursor on that token.
C7_MissingRightParen ==
    /\ (ParsedErr /\ presult.error.message = ExpectParen) =>
          /\ presult.error.token = peek(current)
          /\ presult.error.token.token_type # "RightParen"
          /\ \E c \in pcall.from..(current - 1) : peek(c).token_type = "LeftParen"
    /\ (pcall.op = "parse" /\ peek(pcall.from).token_type = "LeftParen") =>
          LET inner == expression_result(pcall.from + 1)
          IN  (inner.ok /\ peek(inner.cur).token_type # "RightParen") =>
                  /\ presult = ErrResult(ParseError(ExpectParen, peek(inner.cur)))
                  /\ current = inner.cur

\* parse of `( 1` failed with the Eof token
C7_Witness ==
    /\ ParsedErr
    /\ tokens = Example(<<"LeftParen", N(1)>>)
    /\ presult.error.message = ExpectParen
    /\ presult.error.token.token_type = "Eof"
    /\ current = 2

\* what the claim says primary_result does at cursor p
PrimaryAsClaimed(p) ==
    LET t == peek(p)
        r == primary_result(p)
    IN  CASE t.token_type = "False" -> r = Ok(Literal(BoolV(FALSE)), p + 1)
          [] t.token_type = "True" -> r = Ok(Literal(BoolV(TRUE)), p + 1)
          [] t.token_type = "Nil" -> r = Ok(Literal(NilV), p + 1)
          [] t.token_type \in {"Number", "String"} ->
                /\ r.ok
                /\ r.expr.node = "Literal"
                /\ r.expr.value.kind = t.token_type
                /\ t.literal.some => r.expr.value = t.literal.v
                /\ r.cur = p + 1
          [] t.token_type = "LeftParen" -> r.ok => r.expr.node = "Grouping"
          [] OTHER -> r = Err(ParseError("Expect expression.", t), p)

\* C8: at primary position false, true, nil, a Number and a String token yield a
\* Literal, `(` starts a Grouping, and any other token makes parse return
\* "Expect expression." with that token, left unconsumed.
C8_PrimaryPosition ==
    pcall.op = "parse" =>
        /\ PrimaryAsClaimed(pcall.from)
        /\ peek(pcall.from).token_type \notin
                {"False", "True", "Nil", "Number", "String", "LeftParen", "Bang", "Minus"} =>
              /\ presult = ErrResult(ParseError("Expect expression.", peek(pcall.from)))
              /\ current = pcall.from

---------------------------------------------------------------------------
(* Claims about the evaluator, checked under SpecEval *)

Evaluated == eresult # NoResult

\* what evaluate returns for node b of the evaluated tree: the result in the
\* state for the root, evaluate's for a node below it
ResultOf(b) == IF b = tree THEN eresult ELSE evaluate(b)

\* C9: a Binary node evaluates its left operand, then its right operand, then
\* applies its operator: a failure of the left operand is returned and the right
\* operand is not evaluated; otherwise a failure of the right operand is
\* returned; the operator itself fails only when both operands produced values.
C9_LeftToRightFirstFailure ==
    Evaluated =>
        \A b \in Subtrees(tree) :
            b.node = "Binary" =>
                LET left == evaluate(b.left)
                    right == evaluate(b.right)
                    res == ResultOf(b)
                IN  /\ ~left.ok =>
                          /\ ~res.ok
                          /\ res.error = left.error
                          /\ res.calls = <<Label(b)>> \o left.calls
                    /\ (left.ok /\ ~right.ok) =>
                          /\ ~res.ok
                          /\ res.error = right.error
                          /\ res.calls = <<Label(b)>> \o left.calls \o right.calls
                    /\ (left.ok /\ right.ok) =>
                          /\ res.calls = <<Label(b)>> \o left.calls \o right.calls
                          /\ ~res.ok => res.error.token = b.operator

\* both operands of the evaluated Binary node fail, with different failures,
\* and the failure returned is that of the left operand
C9_Witness ==
    /\ Evaluated
    /\ tree.node = "Binary"
    /\ ~evaluate(tree.left).ok
    /\ ~evaluate(tree.right).ok
    /\ evaluate(tree.left).error # evaluate(tree.right).error
    /\ eresult.error = evaluate(tree.left).error

\* C10: a `/` whose operands both produce values, the right one Number zero,
\* fails with "Division by zero." and the `/` token when the left value is a
\* Number, and with "Operands must be numbers." when it is not: it never
\* returns a value.
C10_DivisionByZero ==
    Evaluated =>
        \A b \in Subtrees(tree) :
            (b.node = "Binary" /\ b.operator.token_type = "Slash") =>
                LET left == evaluate(b.left)
                    right == evaluate(b.right)
                    res == ResultOf(b)
                IN  (left.ok /\ right.ok /\ right.value = NumberV(RatZero)) =>
                        /\ ~res.ok
                        /\ res.error =
                              RuntimeError(b.operator,
                                  IF left.value.kind = "Number" THEN "Division by zero."
                                  ELSE "Operands must be numbers.")

\* a division by a computed zero was evaluated
C10_Witness ==
    /\ Evaluated
    /\ tree.node = "Binary"
    /\ tree.operator.token_type = "Slash"
    /\ tree.right.node = "Binary"
    /\ evaluate(tree.left).ok
    /\ ~eresult.ok
    /\ eresult.error.message = "Division by zero."

\* a non-Number was divided by zero
C10_WitnessType ==
    /\ Evaluated
    /\ tree.node = "Binary"
    /\ tree.operator.token_type = "Slash"
    /\ tree.left = Literal(StringV("a"))
    /\ tree.right = Literal(NumberV(RatZero))
    /\ eresult.error.message = "Operands must be numbers."

---------------------------------------------------------------------------
(* Claims about the scanner, checked under SpecScanner *)

\* a char the default arm of scan_token reports: neither a digit nor a letter
Unrecognized(c) ==
    /\ c \notin DOMAIN SingleCharTokens \cup DOMAIN OneOrTwoCharTokens
    /\ c \notin {"/", " ", "\r", "\t", "\n", "\""}
    /\ ~is_digit(c)
    /\ ~is_alpha(c)

\* chars that open no string and no comment and end no line
Plain(chars) == \A i \in 1..Len(chars) : chars[i] \notin {"\"", "/", "\n"}

WithoutEof(returned) == SubSeq(returned, 1, Len(returned) - 1)

FirstScan(chars) == scan_tokens(Scanner_new(chars)).tokens

\* C3: every call of scan_tokens returns a token sequence, and an unrecognized
\* character outside strings and comments yields no token and cuts the source
\* in two: the tokens returned are those of the text before it followed by those
\* of the text after it.
C3_ScanNeverFails ==
    scans > 0 =>
        /\ sresult.kind = "Tokens"
        /\ scans = 1 =>
              \A k \in 1..Len(scanner.source) :
                 LET before == SubSeq(scanner.source, 1, k - 1)
                     after == SubSeq(scanner.source, k + 1, Len(scanner.source))
                 IN  (Unrecognized(scanner.source[k]) /\ Plain(before)) =>
                        WithoutEof(sresult.tokens) =
                           WithoutEof(FirstScan(before)) \o WithoutEof(FirstScan(after))

\* C4: a token sequence scan_tokens returns, on the first call or a later one,
\* ends with an Eof token and holds no other Eof token.
C4_ExactlyOneEof ==
    sresult.kind = "Tokens" =>
        LET returned == sresult.tokens
        IN  /\ Len(returned) >= 1
            /\ returned[Len(returned)].token_type = "Eof"
            /\ \A i \in 1..(Len(returned) - 1) : returned[i].token_type # "Eof"

---------------------------------------------------------------------------
(* Claims about the operators of the evaluator, checked under SpecOperands *)

ArithmeticOps == {"Minus", "Star", "Slash"}

RelationalOps == {"Greater", "GreaterEqual", "Less", "LessEqual"}

\* C11: a Binary node with `-`, `*`, `/`, `>`, `>=`, `<` or `<=` whose operands
\* both produce values returns a value only when both values are Number, a Bool
\* for a relational operator and a Number for an arithmetic one; when either
\* value is a String, Bool or Nil it fails with "Operands must be numbers." and
\* the operator token.
C11_OperandsMustBeNumbers ==
    Evaluated =>
        \A b \in Subtrees(tree) :
            (b.node = "Binary" /\ b.operator.token_type \in ArithmeticOps \cup RelationalOps) =>
                LET left == evaluate(b.left)
                    right == evaluate(b.right)
                    res == ResultOf(b)
                IN  (left.ok /\ right.ok) =>
                        /\ res.ok =>
                              /\ left.value.kind = "Number"
                              /\ right.value.kind = "Number"
                              /\ res.value.kind =
                                    IF b.operator.token_type \in RelationalOps
                                    THEN "Bool" ELSE "Number"
                        /\ ({left.value.kind, right.value.kind} \cap {"String", "Bool", "Nil"} # {}) =>
                              /\ ~res.ok
                              /\ res.error =
                                    RuntimeError(b.operator, "Operands must be numbers.")

\* `<` was applied to a Number and the Nil a literal produced, and failed
C11_Witness ==
    /\ Evaluated
    /\ tree.node = "Binary"
    /\ tree.operator.token_type = "Less"
    /\ evaluate(tree.left).ok
    /\ evaluate(tree.left).value.kind = "Number"
    /\ tree.right = Literal(NilV)
    /\ ~eresult.ok
    /\ eresult.error.message = "Operands must be numbers."

TwoNumbersOrTwoStrings == "Operands must be two numbers or two strings."

\* C12: a `+` node whose operands both produce values returns their sum when
\* both are Number, the left String followed by the right one when both are
\* String, and for any other pair of kinds the failure "Operands must be two
\* numbers or two strings." with the `+` token; 1 + 2 is 3.
C12_PlusAddsOrConcatenates ==
    /\ evaluate(Binary(Lit(1), OpToken("Plus", 1), Lit(2))).value = NumberV(Rat(3, 1))
    /\ Evaluated =>
          \A b \in Subtrees(tree) :
              (b.node = "Binary" /\ b.operator.token_type = "Plus") =>
                  LET left == evaluate(b.left)
                      right == evaluate(b.right)
                      res == ResultOf(b)
                      l == left.value
                      r == right.value
                  IN  (left.ok /\ right.ok) =>
                          CASE l.kind = "Number" /\ r.kind = "Number" ->
                                  /\ res.ok
                                  /\ res.value.kind = "Number"
                                  /\ res.value.n.num * l.n.den * r.n.den =
                                        (l.n.num * r.n.den + r.n.num * l.n.den) * res.value.n.den
                            [] l.kind = "String" /\ r.kind = "String" ->
                                  /\ res.ok
                                  /\ res.value = StringV(l.s \o r.s)
                            [] OTHER ->
                                  /\ ~res.ok
                                  /\ res.error = RuntimeError(b.operator, TwoNumbersOrTwoStrings)

\* the Number 1 and the String "1" were added, and the sum failed
C12_Witness ==
    /\ Evaluated
    /\ tree.node = "Binary"
    /\ tree.operator.token_type = "Plus"
    /\ tree.left = Lit(1)
    /\ tree.right = Literal(StringV("1"))
    /\ ~eresult.ok
    /\ eresult.error.message = TwoNumbersOrTwoStrings

\* two different Strings were concatenated, the left one first
C12_WitnessStrings ==
    /\ Evaluated
    /\ tree.node = "Binary"
    /\ tree.operator.token_type = "Plus"
    /\ eresult.ok
    /\ eresult.value = StringV("1a")

\* two values of the same kind that hold the same number, text or truth value
SameValue(l, r) ==
    /\ l.kind = r.kind
    /\ CASE l.kind = "Number" -> l.n.num * r.n.den = r.n.num * l.n.den
         [] l.kind = "String" -> l.s = r.s
         [] l.kind = "Bool" -> l.b = r.b
         [] l.kind = "Nil" -> TRUE

\* the node with the other equality operator on the same token and operands
OtherEquality(b) ==
    [b EXCEPT !.operator.token_type =
                  IF @ = "EqualEqual" THEN "BangEqual" ELSE "EqualEqual"]

\* C13: an `==` or `!=` node whose operands both produce values never fails:
\* `==` returns Bool(true) exactly when the values are of the same kind and
\* equal, so values of different kinds are unequal, and `!=` returns the
\* negation of what `==` returns for the same operands.
C13_EqualityNeverFails ==
    Evaluated =>
        \A b \in Subtrees(tree) :
            (b.node = "Binary" /\ b.operator.token_type \in {"EqualEqual", "BangEqual"}) =>
                LET left == evaluate(b.left)
                    right == evaluate(b.right)
                    res == ResultOf(b)
                    other == evaluate(OtherEquality(b))
                IN  (left.ok /\ right.ok) =>
                        /\ res.ok
                        /\ res.value =
                              BoolV((b.operator.token_type = "EqualEqual")
                                       <=> SameValue(left.value, right.value))
                        /\ other.ok
                        /\ other.value = BoolV(~res.value.b)

\* Nil and Bool(false) were compared with `==` and found unequal
C13_Witness ==
    /\ Evaluated
    /\ tree.node = "Binary"
    /\ tree.operator.token_type = "EqualEqual"
    /\ tree.left = Literal(NilV)
    /\ tree.right = Literal(BoolV(FALSE))
    /\ eresult.ok
    /\ eresult.value = BoolV(FALSE)

\* the Number 1 and the String "1" were compared with `!=` and found unequal
C13_WitnessCrossKind ==
    /\ Evaluated
    /\ tree.node = "Binary"
    /\ tree.operator.token_type = "BangEqual"
    /\ tree.left = Lit(1)
    /\ tree.right = Literal(StringV("1"))
    /\ eresult.ok
    /\ eresult.value = BoolV(TRUE)

\* C14: a unary `-` node whose operand produces a value returns Number(-n) when
\* the value is Number n, and for a String, Bool or Nil fails with "Operand
\* must be a number." and the `-` token; -5 is the number -5.
C14_NegationNeedsNumber ==
    /\ evaluate(Unary(OpToken("Minus", 1), Lit(5))).value = NumberV(Rat(-5, 1))
    /\ Evaluated =>
          \A u \in Subtrees(tree) :
              (u.node = "Unary" /\ u.operator.token_type = "Minus") =>
                  LET right == evaluate(u.right)
                      res == ResultOf(u)
                  IN  right.ok =>
                          IF right.value.kind = "Number"
                          THEN /\ res.ok
                               /\ res.value = NumberV(Rat(0 - right.value.n.num,
                                                          right.value.n.den))
                          ELSE /\ ~res.ok
                               /\ res.error =
                                     RuntimeError(u.operator, "Operand must be a number.")

\* the String "1" was negated, and the negation failed
C14_Witness ==
    /\ Evaluated
    /\ tree.node = "Unary"
    /\ tree.operator.token_type = "Minus"
    /\ tree.right = Literal(StringV("1"))
    /\ ~eresult.ok
    /\ eresult.error.message = "Operand must be a number."

\* the Number 2 was negated
C14_WitnessNumber ==
    /\ Evaluated
    /\ tree.node = "Unary"
    /\ tree.operator.token_type = "Minus"
    /\ tree.right = Lit(2)
    /\ eresult.ok
    /\ eresult.value = NumberV(Rat(-2, 1))

\* C15: a unary `!` node whose operand produces a value never fails: it returns
\* Bool(true) when the value is Bool(false) or Nil and Bool(false) for every
\* other value, the Number 0 and the empty String included.
C15_BangNeverFails ==
    Evaluated =>
        \A u \in Subtrees(tree) :
            (u.node = "Unary" /\ u.operator.token_type = "Bang") =>
                LET right == evaluate(u.right)
                    res == ResultOf(u)
                IN  right.ok =>
                        /\ res.ok
                        /\ res.value = BoolV(right.value \in {BoolV(FALSE), NilV})

\* `!` was applied to the Number 0 and returned Bool(false)
C15_Witness ==
    /\ Evaluated
    /\ tree.node = "Unary"
    /\ tree.operator.token_type = "Bang"
    /\ tree.right = Lit(0)
    /\ eresult.ok
    /\ eresult.value = BoolV(FALSE)

\* `!` was applied to the empty String and returned Bool(false)
C15_WitnessEmptyString ==
    /\ Evaluated
    /\ tree.node = "Unary"
    /\ tree.operator.token_type = "Bang"
    /\ tree.right = Literal(StringV(""))
    /\ eresult.ok
    /\ eresult.value = BoolV(FALSE)

\* the operator tokens of the Unary and Binary nodes of a tree
OperatorTokens(e) == {n.operator : n \in {s \in Subtrees(e) : s.node \in {"Unary", "Binary"}}}

\* C16: a RuntimeFailure evaluate returns carries the token of an operator node
\* of the evaluated tree: that token's type, lexeme and line.
C16_FailureCarriesOperatorToken ==
    (Evaluated /\ ~eresult.ok) => eresult.error.token \in OperatorTokens(tree)

NotImplemented == "This expression type is not yet implemented"

\* C17: the evaluation of a tree in which a node of a reserved shape occurs, as
\* the root or below Unary, Binary and Grouping nodes, returns a RuntimeFailure,
\* and so does the evaluation of every node of the tree it occurs in.
C17_ReservedShapesFail ==
    Evaluated =>
        \A n \in Subtrees(tree) :
            (\E s \in Subtrees(n) : s.node \in ReservedShapes) => ~ResultOf(n).ok

\* a Binary node whose left operand is a value and whose right operand holds a
\* reserved node in parentheses was evaluated, and failed in the reserved node
C17_Witness ==
    /\ Evaluated
    /\ tree.node = "Binary"
    /\ evaluate(tree.left).ok
    /\ tree.right.node = "Grouping"
    /\ tree.right.expression.node \in ReservedShapes
    /\ ~eresult.ok
    /\ eresult.error.message = NotImplemented

---------------------------------------------------------------------------
(* More claims about the parser, checked under SpecParser *)

RECURSIVE PrefixRun(_)

\* the number of consecutive `!` and `-` tokens from cursor cur on
PrefixRun(cur) ==
    IF peek(cur).token_type \in {"Bang", "Minus"} THEN 1 + PrefixRun(cur + 1) ELSE 0

RECURSIVE LeftMost(_)

\* the first operand of a tree: its root, or the first operand of its left operand
LeftMost(e) == IF e.node = "Binary" THEN LeftMost(e.left) ELSE e

RECURSIVE NestedUnary(_, _, _)

\* e is n Unary nodes, one in the other, with the n tokens from cursor cur on as
\* their operators, the outermost first, around a node that is not a Unary
NestedUnary(e, cur, n) ==
    IF n = 0 THEN e.node \in {"Literal", "Grouping"}
    ELSE /\ e.node = "Unary"
         /\ e.operator = peek(cur)
         /\ NestedUnary(e.right, cur + 1, n - 1)

\* C18: when parse returns a tree, the run of n prefix operators it started at
\* is n nested Unary nodes, the outermost operator first, around a Literal or a
\* Grouping; the operand of every Unary node is a Unary, a Literal or a Grouping;
\* --5 parses to Unary(-, Unary(-, 5)) and -5 + 3 to Binary(Unary(-, 5), +, 3).
C18_UnaryNesting ==
    ParsedOk =>
        /\ NestedUnary(LeftMost(presult.expr), pcall.from, PrefixRun(pcall.from))
        /\ \A u \in Subtrees(presult.expr) :
              u.node = "Unary" => u.right.node \in {"Unary", "Literal", "Grouping"}
        /\ (tokens = Example(<<"Minus", "Minus", N(5)>>) /\ pcall.from = 0) =>
              presult.expr = Unary(tokens[1], Unary(tokens[2], Lit(5)))
        /\ (tokens = Example(<<"Minus", N(5), "Plus", N(3)>>) /\ pcall.from = 0) =>
              presult.expr = Binary(Unary(tokens[1], Lit(5)), tokens[3], Lit(3))

\* !-!5 was parsed to three nested Unary nodes
C18_Witness ==
    /\ ParsedOk
    /\ pcall.from = 0
    /\ PrefixRun(0) = 3
    /\ presult.expr.node = "Unary"
    /\ presult.expr.operator.token_type = "Bang"
    /\ presult.expr.right.node = "Unary"
    /\ presult.expr.right.operator.token_type = "Minus"
    /\ presult.expr.right.right.node = "Unary"
    /\ presult.expr.right.right.right.node = "Literal"

\* a prefix operator before the first operand of a binary operator was parsed
\* to a Unary node that is the left operand of the Binary node
C18_WitnessBinary ==
    /\ ParsedOk
    /\ pcall.from = 0
    /\ presult.expr.node = "Binary"
    /\ presult.expr.left.node = "Unary"
    /\ presult.expr.left.operator = tokens[1]

---------------------------------------------------------------------------
(* Claims about the printer, checked under SpecPrinter *)

Printed == printed # NoResult

\* what print returns for node n of the printed tree
PrintedFor(n) == IF n = tree THEN printed.chars ELSE AstPrinter_print(n)

\* the text of each literal value of the printed trees
LiteralText(v) ==
    CASE v = NumberV(Rat(123, 1)) -> "123"
      [] v = NumberV(Rat(4567, 100)) -> "45.67"
      [] v = StringV("a") -> "a"
      [] v = StringV("(") -> "("
      [] v = BoolV(TRUE) -> "true"
      [] v = NilV -> "nil"

\* the output for node n is the one the form of n prescribes, given the outputs
\* for its operands
Structural(n) ==
    LET out == Text(PrintedFor(n))
    IN  CASE n.node = "Binary" ->
                out = "(" \o n.operator.lexeme \o " " \o Text(AstPrinter_print(n.left))
                          \o " " \o Text(AstPrinter_print(n.right)) \o ")"
          [] n.node = "Unary" ->
                out = "(" \o n.operator.lexeme \o " " \o Text(AstPrinter_print(n.right)) \o ")"
          [] n.node = "Grouping" ->
                out = "(group " \o Text(AstPrinter_print(n.expression)) \o ")"
          [] n.node = "Literal" -> out = LiteralText(n.value)

RECURSIVE NonLiterals(_)

\* the number of Unary, Binary and Grouping nodes of a tree
NonLiterals(e) ==
    CASE e.node = "Binary" -> 1 + NonLiterals(e.left) + NonLiterals(e.right)
      [] e.node = "Unary" -> 1 + NonLiterals(e.right)
      [] e.node = "Grouping" -> 1 + NonLiterals(e.expression)
      [] OTHER -> 0

Max(a, b) == IF a >= b THEN a ELSE b

RECURSIVE Height(_)

\* the largest number of Unary, Binary and Grouping nodes on a path from the root
Height(e) ==
    CASE e.node = "Binary" -> 1 + Max(Height(e.left), Height(e.right))
      [] e.node = "Unary" -> 1 + Height(e.right)
      [] e.node = "Grouping" -> 1 + Height(e.expression)
      [] OTHER -> 0

\* the number of chars c among the first i chars
Count(chars, c, i) == Cardinality({j \in 1..i : chars[j] = c})

\* the parentheses open after the first i chars
OpenAt(chars, i) == Count(chars, "(", i) - Count(chars, ")", i)

\* the parentheses of the output are one balanced pair for each Unary, Binary
\* and Grouping node, nested as deep as these nodes are
MirrorsTree(chars, e) ==
    /\ Count(chars, "(", Len(chars)) = NonLiterals(e)
    /\ Count(chars, ")", Len(chars)) = NonLiterals(e)
    /\ \A i \in 1..Len(chars) : OpenAt(chars, i) \in 0..Height(e)
    /\ \E i \in 0..Len(chars) : OpenAt(chars, i) = Height(e)

OnlyImplementedNodes(e) == \A n \in Subtrees(e) : n.node \notin ReservedShapes

\* no String literal of the tree holds a parenthesis
NoParenthesisInLiterals(e) ==
    \A n \in Subtrees(e) :
        (n.node = "Literal" /\ n.value.kind = "String") =>
            \A i \in 1..Len(Chars(n.value.s)) : Chars(n.value.s)[i] \notin {"(", ")"}

BookExample ==
    Binary(Unary(OpToken("Minus", 1), Lit(123)), OpToken("Star", 2),
           Grouping(Literal(NumberV(Rat(4567, 100)))))

C19_WitnessParenthesis ==
    /\ Printed
    /\ tree.node = "Binary"
    /\ tree.right = Literal(StringV("("))
    /\ ~MirrorsTree(printed.chars, tree)

---------------------------------------------------------------------------
(* More claims about the scanner, checked under SpecScanner *)

\* the token type of operator char c alone, and with a trailing `=`
OperatorAlone(c) ==
    CASE c = "!" -> "Bang" [] c = "=" -> "Equal" [] c = "<" -> "Less" [] c = ">" -> "Greater"

OperatorWithEqual(c) ==
    CASE c = "!" -> "BangEqual" [] c = "=" -> "EqualEqual"
      [] c = "<" -> "LessEqual" [] c = ">" -> "GreaterEqual"

RECURSIVE Munch(_)

\* the operator tokens of a source of operator chars and spaces, by type and
\* lexeme: from left to right, an operator char takes the `=` next to it
Munch(chars) ==
    IF chars = <<>> THEN <<>>
    ELSE IF chars[1] = " " THEN Munch(Tail(chars))
    ELSE IF Len(chars) >= 2 /\ chars[2] = "="
    THEN <<<<OperatorWithEqual(chars[1]), chars[1] \o "=">>>> \o Munch(Tail(Tail(chars)))
    ELSE <<<<OperatorAlone(chars[1]), chars[1]>>>> \o Munch(Tail(chars))

TypesAndLexemes(returned) ==
    [i \in 1..Len(returned) |-> <<returned[i].token_type, returned[i].lexeme>>]

OperatorSource ==
    \A i \in 1..Len(scanner.source) : scanner.source[i] \in OperatorChars

\* C20: the first scan of a source of `!`, `=`, `<`, `>` and spaces returns, from
\* left to right, the two-character token for an operator char with `=` next to
\* it and the one-character token otherwise: !== scans as BangEqual, Equal and
\* <=>=<> as LessEqual, GreaterEqual, Less, Greater.
C20_MaximalMunch ==
    (scans = 1 /\ OperatorSource) =>
        /\ sresult.kind = "Tokens"
        /\ TypesAndLexemes(WithoutEof(sresult.tokens)) = Munch(scanner.source)
        /\ scanner.source = <<"!", "=", "=">> =>
              TypesAndLexemes(sresult.tokens) =
                 <<<<"BangEqual", "!=">>, <<"Equal", "=">>, <<"Eof", "">>>>
        /\ scanner.source = <<"<", "=", ">", "=", "<", ">">> =>
              TypesAndLexemes(sresult.tokens) =
                 <<<<"LessEqual", "<=">>, <<"GreaterEqual", ">=">>, <<"Less", "<">>,
                   <<"Greater", ">">>, <<"Eof", "">>>>

\* the source !== was scanned
C20_Witness ==
    /\ scans = 1
    /\ scanner.source = <<"!", "=", "=">>
    /\ sresult.kind = "Tokens"
    /\ Len(sresult.tokens) = 3
    /\ sresult.tokens[1].token_type = "BangEqual"

\* the source <=>=<> was scanned
C20_WitnessComparison ==
    /\ scans = 1
    /\ scanner.source = <<"<", "=", ">", "=", "<", ">">>
    /\ sresult.kind = "Tokens"
    /\ Len(sresult.tokens) = 5

---------------------------------------------------------------------------
(* Claims about words, strings, comments and numbers, checked under        *)
(* SpecScanner                                                             *)

\* the keyword kind of each of the 16 keywords
KeywordKind(word) ==
    CASE word = "and" -> "And" [] word = "class" -> "Class" [] word = "else" -> "Else"
      [] word = "false" -> "False" [] word = "for" -> "For" [] word = "fun" -> "Fun"
      [] word = "if" -> "If" [] word = "nil" -> "Nil" [] word = "or" -> "Or"
      [] word = "print" -> "Print" [] word = "return" -> "Return"
      [] word = "super" -> "Super" [] word = "this" -> "This" [] word = "true" -> "True"
      [] word = "var" -> "Var" [] word = "while" -> "While"

KeywordTexts ==
    {"and", "class", "else", "false", "for", "fun", "if", "nil", "or", "print",
     "return", "super", "this", "true", "var", "while"}

\* the length of the longest prefix of chars whose chars all satisfy Member
RunLength(chars, Member(_)) ==
    IF \A i \in 1..Len(chars) : Member(chars[i]) THEN Len(chars)
    ELSE (CHOOSE i \in 1..Len(chars) :
             ~Member(chars[i]) /\ \A j \in 1..(i - 1) : Member(chars[j])) - 1

RECURSIVE Words(_)

\* the tokens of a source of letters, digits, `_` and spaces, by type and
\* lexeme: a maximal run of digits is a Number, a maximal run of letters, digits
\* and `_` that starts with a letter or `_` is a keyword when the whole run is
\* one of the 16 keywords and an Identifier otherwise
Words(chars) ==
    IF chars = <<>> THEN <<>>
    ELSE IF chars[1] = " " THEN Words(Tail(chars))
    ELSE LET n == IF is_digit(chars[1]) THEN RunLength(chars, is_digit)
                  ELSE RunLength(chars, is_alpha_numeric)
             word == Text(SubSeq(chars, 1, n))
             kind == IF is_digit(chars[1]) THEN "Number"
                     ELSE IF word \in KeywordTexts THEN KeywordKind(word)
                     ELSE "Identifier"
         IN  <<<<kind, word>>>> \o Words(SubSeq(chars, n + 1, Len(chars)))

WordSource ==
    \A i \in 1..Len(scanner.source) :
        is_alpha_numeric(scanner.source[i]) \/ scanner.source[i] = " "

\* the first scan returned one token and Eof, the token of this type and lexeme
ScannedAs(token_type, lexeme) ==
    TypesAndLexemes(sresult.tokens) = <<<<token_type, lexeme>>, <<"Eof", "">>>>

\* C21: in the first scan of a source of letters, digits, `_` and spaces, a
\* maximal run that starts with a letter or `_` is one token whose lexeme is the
\* whole run, of a keyword kind exactly when the run is one of the 16 keywords
\* and of kind Identifier otherwise: varsity, myvar and var123 are Identifiers.
C21_KeywordsAreWholeTokens ==
    (scans = 1 /\ WordSource) =>
        /\ sresult.kind = "Tokens"
        /\ TypesAndLexemes(WithoutEof(sresult.tokens)) = Words(scanner.source)
        /\ Text(scanner.source) \in KeywordTexts =>
              ScannedAs(KeywordKind(Text(scanner.source)), Text(scanner.source))
        /\ Text(scanner.source) \in {"varsity", "myvar", "var123"} =>
              ScannedAs("Identifier", Text(scanner.source))

\* a word that ends with the keyword `if` was scanned as one Identifier
C21_Witness ==
    /\ scans = 1
    /\ scanner.source = <<"_", "i", "f">>
    /\ ScannedAs("Identifier", "_if")

\* varsity was scanned
C21_WitnessPrefix ==
    /\ scans = 1
    /\ scanner.source = <<"v", "a", "r", "s", "i", "t", "y">>
    /\ ScannedAs("Identifier", "varsity")

\* the keyword `for` was scanned
C21_WitnessKeyword ==
    /\ scans = 1
    /\ scanner.source = <<"f", "o", "r">>
    /\ ScannedAs("For", "for")

\* the number of newline chars of chars
Newlines(chars) == Cardinality({i \in 1..Len(chars) : chars[i] = "\n"})

\* tokens with n added to the line of each
Shift(returned, n) == [i \in 1..Len(returned) |-> [returned[i] EXCEPT !.line = @ + n]]

\* a first scan of chars returns
Returns(chars) == ~scan_tokens(Scanner_new(chars)).sc.panic

\* chars k and m of the source are the quotes of a string literal: nothing
\* before k opens a string or a comment or ends a line, and no quote lies
\* between them
StringAt(k, m) ==
    /\ k < m
    /\ scanner.source[k] = "\""
    /\ scanner.source[m] = "\""
    /\ Plain(SubSeq(scanner.source, 1, k - 1))
    /\ \A i \in (k + 1)..(m - 1) : scanner.source[i] # "\""

\* the first scan of a source with a string literal at chars k..m returned the
\* tokens of the text before it, one String token and the tokens of the text
\* after it
StringScanned(k, m) ==
    LET before == SubSeq(scanner.source, 1, k - 1)
        body == SubSeq(scanner.source, k + 1, m - 1)
        rest == SubSeq(scanner.source, m + 1, Len(scanner.source))
    IN  (Returns(before) /\ Returns(rest)) =>
           /\ sresult.kind = "Tokens"
           /\ sresult.tokens =
                 WithoutEof(FirstScan(before))
                    \o <<Token("String", "\"" \o Text(body) \o "\"",
                                Some(StringV(Text(body))), 1 + Newlines(body))>>
                    \o Shift(FirstScan(rest), Newlines(body))

\* C22: the first scan of a source with a terminated string literal returns
\* one String token for it, whose payload is the text between the quotes and
\* whose line is the line of the closing quote, one more per newline inside the
\* literal than the line of the opening quote; the tokens after it carry the
\* lines counted from there.
C22_StringLiteral ==
    scans = 1 =>
        \A k, m \in 1..Len(scanner.source) : StringAt(k, m) => StringScanned(k, m)

\* char k of the source opens a string that the source does not close
UnterminatedAt(k) ==
    /\ scanner.source[k] = "\""
    /\ Plain(SubSeq(scanner.source, 1, k - 1))
    /\ \A i \in (k + 1)..Len(scanner.source) : scanner.source[i] # "\""

\* C23: the first scan of a source whose last `"` opens a string that is not
\* closed returns normally, with the tokens of the text before that quote
\* followed by one Eof token and no token for the string; the diagnostic
\* "Unterminated string." is printed.
C23_UnterminatedString ==
    scans = 1 =>
        \A k \in 1..Len(scanner.source) :
           LET before == SubSeq(scanner.source, 1, k - 1)
               body == SubSeq(scanner.source, k + 1, Len(scanner.source))
           IN  (UnterminatedAt(k) /\ Returns(before)) =>
                  /\ sresult.kind = "Tokens"
                  /\ sresult.tokens =
                        WithoutEof(FirstScan(before))
                           \o <<Token("Eof", "", None, 1 + Newlines(body))>>
                  /\ \E i \in 1..Len(scanner.stderr) :
                        scanner.stderr[i].message = "Unterminated string."

\* C24: in every token sequence scan_tokens returns, the line of an Eof token
\* is the line count the scanner ends with, 1 plus the number of newline chars
\* of the source, those inside strings and those that end comments included;
\* the first scan of the empty source returns one token, Eof on line 1.
C24_EofLine ==
    sresult.kind = "Tokens" =>
        /\ sresult.tokens # <<>>
        /\ sresult.tokens[Len(sresult.tokens)].token_type = "Eof"
        /\ \A i \in 1..Len(sresult.tokens) :
              sresult.tokens[i].token_type = "Eof" =>
                 /\ sresult.tokens[i].line = scanner.line
                 /\ sresult.tokens[i].line = 1 + Newlines(scanner.source)
        /\ (scans = 1 /\ scanner.source = <<>>) =>
              sresult.tokens = <<Token("Eof", "", None, 1)>>

\* a source with a newline inside a string and one after it was scanned
C24_Witness ==
    /\ scans = 1
    /\ scanner.source = <<"\"", "\n", "\"", "\n">>
    /\ sresult.kind = "Tokens"
    /\ Len(sresult.tokens) = 2
    /\ sresult.tokens[1].token_type = "String"
    /\ sresult.tokens[2] = Token("Eof", "", None, 3)

\* a source with a comment that a newline ends was scanned
C24_WitnessComment ==
    /\ scans = 1
    /\ scanner.source = <<"/", "/", "a", "\n">>
    /\ sresult.kind = "Tokens"
    /\ sresult.tokens = <<Token("Eof", "", None, 2)>>

\* the empty source was scanned
C24_WitnessEmpty ==
    /\ scans = 1
    /\ scanner.source = <<>>
    /\ sresult.kind = "Tokens"
    /\ Len(sresult.tokens) = 1

\* chars k and k + 1 of the source open a line comment whose last char is
\* char m: nothing before k opens a string or a comment or ends a line, and the
\* comment ends at the end of the source or before a newline
CommentAt(k, m) ==
    /\ k < m
    /\ scanner.source[k] = "/"
    /\ scanner.source[k + 1] = "/"
    /\ Plain(SubSeq(scanner.source, 1, k - 1))
    /\ \A i \in (k + 2)..m : scanner.source[i] # "\n"
    /\ m < Len(scanner.source) => scanner.source[m + 1] = "\n"

\* C25: the first scan of a source with a line comment returns the tokens,
\* with their lines, of the source without the comment, the newline that ends
\* the comment kept: the comment yields no token and hides nothing but its own
\* chars.
C25_LineComment ==
    scans = 1 =>
        \A k, m \in 1..Len(scanner.source) :
           LET without == SubSeq(scanner.source, 1, k - 1)
                             \o SubSeq(scanner.source, m + 1, Len(scanner.source))
           IN  (CommentAt(k, m) /\ Returns(without)) =>
                  /\ sresult.kind = "Tokens"
                  /\ sresult.tokens = FirstScan(without)

\* the length of the number at the head of chars: its digits and, when a `.`
\* with a digit after it follows them, the `.` and the digits after it
NumberLength(chars) ==
    LET n == RunLength(chars, is_digit)
    IN  IF n + 2 <= Len(chars) /\ chars[n + 1] = "." /\ is_digit(chars[n + 2])
        THEN n + 1 + RunLength(SubSeq(chars, n + 2, Len(chars)), is_digit)
        ELSE n

RECURSIVE Numbers(_)

\* the tokens of a source of digits, dots and spaces, by type and lexeme
Numbers(chars) ==
    IF chars = <<>> THEN <<>>
    ELSE IF chars[1] = " " THEN Numbers(Tail(chars))
    ELSE IF chars[1] = "." THEN <<<<"Dot", ".">>>> \o Numbers(Tail(chars))
    ELSE LET n == NumberLength(chars)
         IN  <<<<"Number", Text(SubSeq(chars, 1, n))>>>>
                \o Numbers(SubSeq(chars, n + 1, Len(chars)))

NumberSource ==
    \A i \in 1..Len(scanner.source) :
        is_digit(scanner.source[i]) \/ scanner.source[i] \in {".", " "}

\* C26: the first scan of a source of digits, dots and spaces returns, from
\* left to right, one Number token for each maximal run of digits, extended by
\* a `.` and the digits after it only when a digit follows the `.`, and one Dot
\* token for every other `.`: `1.` scans as Number, Dot, Eof and `.5` as Dot,
\* Number, Eof.
C26_NumberShape ==
    (scans = 1 /\ NumberSource) =>
        /\ sresult.kind = "Tokens"
        /\ TypesAndLexemes(WithoutEof(sresult.tokens)) = Numbers(scanner.source)
        /\ scanner.source = <<"1", ".">> =>
              TypesAndLexemes(sresult.tokens) =
                 <<<<"Number", "1">>, <<"Dot", ".">>, <<"Eof", "">>>>
        /\ scanner.source = <<".", "5">> =>
              TypesAndLexemes(sresult.tokens) =
                 <<<<"Dot", ".">>, <<"Number", "5">>, <<"Eof", "">>>>

\* the source `1.` was scanned
C26_Witness ==
    /\ scans = 1
    /\ scanner.source = <<"1", ".">>
    /\ sresult.kind = "Tokens"
    /\ Len(sresult.tokens) = 3
    /\ sresult.tokens[1].literal = Some(NumberV(Rat(1, 1)))
    /\ sresult.tokens[2].token_type = "Dot"

\* the source `1.5.` was scanned: the second dot is not part of the number
C26_WitnessFraction ==
    /\ scans = 1
    /\ scanner.source = <<"1", ".", "5", ".">>
    /\ sresult.kind = "Tokens"
    /\ Len(sresult.tokens) = 3
    /\ sresult.tokens[1].lexeme = "1.5"
    /\ sresult.tokens[1].literal = Some(NumberV(Rat(3, 2)))
    /\ sresult.tokens[2].token_type = "Dot"

\* the source `.5` was scanned
C26_WitnessLeadingDot ==
    /\ scans = 1
    /\ scanner.source = <<".", "5">>
    /\ sresult.kind = "Tokens"
    /\ sresult.tokens[1].token_type = "Dot"
    /\ sresult.tokens[2].token_type = "Number"

---------------------------------------------------------------------------
(* Claims about the cursor of the parser *)

\* the position of the first Eof token: the cursor at which is_at_end holds
EofPosition == CHOOSE c \in 0..(Len(tokens) - 1) :
                  /\ tokens[c + 1].token_type = "Eof"
                  /\ \A b \in 0..(c - 1) : tokens[b + 1].token_type # "Eof"

\* consume, called at the cursor, leaves it in place or moves it forward, not
\* past Eof
ConsumeForward ==
    \A token_type \in TokenType :
        LET c == consume(current, token_type, "Expect ')' after expression.")
        IN  current <= c.cur /\ c.cur <= EofPosition

\* C27: no call of parse, expression, synchronize, advance, match_tokens or
\* check changes the token sequence; each leaves the cursor where it was or
\* moves it forward, never past the position of the Eof token; the same holds
\* of consume at every cursor a call leaves.
C27_CursorOnlyForward ==
    [][/\ tokens' = tokens
       /\ current <= current'
       /\ current' <= EofPosition
       /\ ConsumeForward]_vars

\* match_tokens moved the cursor over one token
C27_Witness ==
    /\ pcall.op = "match_tokens"
    /\ presult = BoolResult(TRUE)
    /\ current = pcall.from + 1

\* advance was called on the Eof token and left the cursor there
C27_WitnessAtEof ==
    /\ pcall.op = "advance"
    /\ presult.kind = "Token"
    /\ current = pcall.from
    /\ current = EofPosition

\* C28: expression() accepts what parse() accepts: called at a cursor from
\* which parse() returns Ok(e) and leaves the cursor at c, expression() returns
\* e and leaves the cursor at c; called at a cursor from which parse() returns a
\* ParseFailure, expression() panics.
C28_SameInputs ==
    pcall.op = "expression" =>
        LET r == parse(pcall.from)
        IN  IF r.ok THEN presult = OkResult(r.expr) /\ current = r.cur
            ELSE presult.kind = "Panic"

RECURSIVE IsExpression(_, _)
RECURSIVE IsUnary(_, _)

\* tokens a + 1 .. b are a primary of the grammar: a literal token, or an
\* expression in parentheses
IsPrimary(a, b) ==
    \/ /\ b = a + 1
       /\ tokens[b].token_type \in {"False", "True", "Nil", "Number", "String"}
    \/ /\ b >= a + 3
       /\ tokens[a + 1].token_type = "LeftParen"
       /\ tokens[b].token_type = "RightParen"
       /\ IsExpression(a + 1, b - 1)

\* tokens a + 1 .. b are a unary of the grammar: prefix operators and a primary
IsUnary(a, b) ==
    /\ b > a
    /\ \/ IsPrimary(a, b)
       \/ tokens[a + 1].token_type \in {"Bang", "Minus"} /\ IsUnary(a + 1, b)

\* tokens a + 1 .. b are an expression of the grammar: unaries with binary
\* operators between them
IsExpression(a, b) ==
    \/ IsUnary(a, b)
    \/ \E k \in (a + 2)..(b - 1) :
          /\ tokens[k].token_type \in BinaryOps
          /\ IsUnary(k, b)
          /\ IsExpression(a, k - 1)

\* every Number and String token carries its payload, as those of the scanner do
PayloadsPresent ==
    \A i \in 1..Len(tokens) :
        tokens[i].token_type \in {"Number", "String"} => tokens[i].literal.some

C29_WitnessNumber ==
    /\ pcall.op = "parse"
    /\ pcall.from = 0
    /\ tokens = Example(<<N(1), N(2)>>)
    /\ presult = OkResult(Lit(1))
    /\ current = 1

\* from every cursor that is not on Eof, synchronize returns with the cursor
\* moved forward
SynchronizeAdvances ==
    \A c \in 0..(EofPosition - 1) :
        ~synchronize(c).panic /\ synchronize(c).cur > c

\* from every cursor, a parse that returns Ok has consumed a token
ParseConsumes ==
    \A c \in 0..EofPosition : parse(c).ok => parse(c).cur > c

\* the loop of the driver has ended: the cursor is on Eof and no ParseFailure
\* waits for its synchronize
DriverDone == is_at_end(current) /\ presult.kind \in {"None", "Ok"}

\* C30: on every token sequence that ends with Eof, synchronize called with
\* the cursor not on Eof moves the cursor forward and a parse() that returns Ok
\* has consumed at least one token; and the loop that calls parse and, after a
\* ParseFailure, synchronize, while the next token is not Eof, comes to its end.
C30_DriverTerminates ==
    /\ [](SynchronizeAdvances /\ ParseConsumes)
    /\ <>[]DriverDone

\* the driver ended after a ParseFailure, a synchronize that skipped to the
\* token after a `;` and a parse that returned Ok
C30_Witness ==
    /\ DriverDone
    /\ pcall.op = "parse"
    /\ pcall.from > 1
    /\ pcall.before = "None"
    /\ previous(pcall.from).token_type = "Semicolon"
    /\ presult.kind = "Ok"

\* the driver ended with a synchronize that stopped on Eof
C30_WitnessSynchronize ==
    /\ DriverDone
    /\ pcall.op = "synchronize"
    /\ current > pcall.from

===========================================================================
